---- MODULE Spec2Model ----
(***************************************************************************)
(* Verification model of tiged: the tarball cache / offline state machine  *)
(* of Tiged.cloneWithTar (src/src/tiged.ts) with updateCache               *)
(* (src/src/utils.ts), and the path mapping and extraction of untarToDir   *)
(* (src/src/tar.ts).                                                       *)
(*                                                                         *)
(* The specifications that share the module:                               *)
(*   Spec     clone operations on one repository cache directory, run one  *)
(*            at a time, every await point of cloneWithTar being a step;   *)
(*   SpecTar  untarToDir applied to bounded archives of entries whose      *)
(*            effective names are arbitrary character strings;             *)
(*   SpecClone Tiged.clone: the destination check, the dispatch on the     *)
(*            mode, cloneWithTar or cloneWithGit, the directives;          *)
(*   SpecParse the Tiged constructor with extractRepositoryInfo            *)
(*            (src/src/utils.ts) applied to bounded source specifiers;     *)
(*   SpecHash Tiged.getHash applied to bounded refs and ref listings;      *)
(*   SpecIndex the _cloneWithTar and updateCache of src/src/index.ts;      *)
(*   SpecConc two clone operations interleaved on the cache directories;   *)
(*   SpecBlocks the header offsets of scanTarGz and untarToDir over        *)
(*            buffers of blocks with arbitrary size fields.                *)
(* Strings that the code inspects character by character (tar paths) are   *)
(* sequences of one-character strings.  The file system is reliable: stat  *)
(* fails exactly when the file is absent, unlink and rm remove the file.   *)
(***************************************************************************)
EXTENDS Integers, Sequences, FiniteSets, TLC

VARIABLES
  mapJson,      \* <cacheDir>/map.json     : [exists, content: ref -> hash]
  accessJson,   \* <cacheDir>/access.json  : [exists, content: ref -> timestamp]
  tarballs,     \* <cacheDir>/<hash>.tar.gz: hash -> "none" | "partial" | "full"
  clock,        \* number of clone operations started; source of timestamps
  run,          \* the cloneWithTar invocation in progress (locals and position)
  pre,          \* the cache as it was when the current invocation started
  tar,          \* the untarToDir invocation (SpecTar)
  cl            \* the Tiged.clone invocation and its destination (SpecClone)

cacheVars == <<mapJson, accessJson, tarballs, clock, run, pre>>
vars == <<mapJson, accessJson, tarballs, clock, run, pre, tar, cl>>

-----------------------------------------------------------------------------
(* Bounds and input domains of the cache machine.                          *)

MaxRuns == 3

\* two distinct commit hashes (40 lowercase hex characters each)
Hashes == {"h1", "h2"}
\* branch names
RefNames == {"main", "dev"}
\* what a user may ask for: the default marker, a branch, a full commit hash
Refs == {"HEAD"} \cup RefNames \cup Hashes

FullHashLen == 40
MinPrefixLen == 8

\* abbreviations of the hash h1: its first 8 characters, its first 4
HashPrefixes == {"p1", "s1"}

\* length of a ref string
StrLen(ref) ==
  IF ref \in Hashes THEN 40
  ELSE IF ref = "p1" THEN 8
  ELSE IF ref = "dev" THEN 3
  ELSE 4

\* every character of the ref string is in [0-9a-f]
IsHex(ref) == ref \in Hashes \cup HashPrefixes

\* /^[0-9a-f]{40}$/.test(ref)
isFullCommitHash(ref) == IsHex(ref) /\ StrLen(ref) = FullHashLen

\* hash.startsWith(selector), both being strings of the domains above
StartsWith(hash, selector) ==
  \/ selector \in Hashes /\ hash = selector
  \/ selector \in HashPrefixes /\ hash = "h1"

EmptyFn == [x \in {} |-> ""]

\* obj[key] of a JavaScript object: undefined (falsy) is rendered as ""
Lookup(obj, key) == IF key \in DOMAIN obj THEN obj[key] ELSE ""

\* obj[key] = value
Assign(obj, key, value) ==
  [k \in (DOMAIN obj) \cup {key} |-> IF k = key THEN value ELSE obj[k]]

\* tryRequire(path) || {}
tryRequire(file) == IF file.exists THEN file.content ELSE EmptyFn

NoRun ==
  [pc |-> "idle", ref |-> "", offlineMode |-> FALSE, disableCache |-> FALSE,
   cached |-> EmptyFn, hash |-> "", net |-> {}, reused |-> FALSE,
   error |-> "", failedAt |-> "", extractedFrom |-> "", wrote |-> FALSE,
   untar |-> "", errorRef |-> "", original |-> <<>>, badRef |-> ""]

InitCache ==
  /\ mapJson = [exists |-> FALSE, content |-> EmptyFn]
  /\ accessJson = [exists |-> FALSE, content |-> EmptyFn]
  /\ tarballs = [h \in Hashes |-> "none"]
  /\ clock = 0
  /\ run = NoRun
  /\ pre = [map |-> [exists |-> FALSE, content |-> EmptyFn],
            access |-> [exists |-> FALSE, content |-> EmptyFn],
            tar |-> [h \in Hashes |-> "none"]]

Fail(code) == [run EXCEPT !.pc = "failed", !.error = code, !.failedAt = run.pc]

-----------------------------------------------------------------------------
(* Tiged.cloneWithTar, lines 816-823: read map.json, then resolve.         *)

StartClone(ref, offline, disable) ==
  /\ run.pc \in {"idle", "done", "failed"}
  /\ clock < MaxRuns
  /\ clock' = clock + 1
  /\ run' = [NoRun EXCEPT !.pc = "resolve", !.ref = ref,
                          !.offlineMode = offline, !.disableCache = disable,
                          !.cached = tryRequire(mapJson)]
  /\ pre' = [map |-> mapJson, access |-> accessJson, tar |-> tarballs]
  /\ UNCHANGED <<mapJson, accessJson, tarballs>>

(* The remote ref listing returned by fetchRefs: the HEAD row first, whose *)
(* name is its hash, then one row per branch the remote has.               *)
RefRow(type, name, hash) == [type |-> type, name |-> name, hash |-> hash]

Listing(head, main, dev) ==
  (IF head = "" THEN <<>> ELSE <<RefRow("HEAD", head, head)>>)
  \o (IF main = "" THEN <<>> ELSE <<RefRow("branch", "main", main)>>)
  \o (IF dev = "" THEN <<>> ELSE <<RefRow("branch", "dev", dev)>>)

MaybeHash == Hashes \cup {""}

Listings == {Listing(h, m, d) : h \in MaybeHash, m \in MaybeHash, d \in MaybeHash}

\* the first of the matching row indices, 0 if none
FirstIdx(hits) ==
  IF hits = {} THEN 0 ELSE CHOOSE i \in hits : \A j \in hits : i <= j

\* selectRef that tries the hash prefix before the ref name
selectRef_PrefixFirst(refs, selector) ==
  LET n == FirstIdx({i \in 1..Len(refs) : refs[i].name = selector})
      p == FirstIdx({i \in 1..Len(refs) : StartsWith(refs[i].hash, selector)})
  IN IF StrLen(selector) >= MinPrefixLen /\ p # 0 THEN refs[p].hash
     ELSE IF n # 0 THEN refs[n].hash
     ELSE ""

\* Tiged.selectRef: exact name first, then (selector of 8+ characters) prefix
selectRef(refs, selector) ==
  LET n == FirstIdx({i \in 1..Len(refs) : refs[i].name = selector})
      p == FirstIdx({i \in 1..Len(refs) : StartsWith(refs[i].hash, selector)})
  IN IF n # 0 THEN refs[n].hash
     ELSE IF StrLen(selector) < MinPrefixLen THEN ""
     ELSE IF p # 0 THEN refs[p].hash
     ELSE ""

\* Tiged.getHash after fetchRefs returned refs; old is what getOldHash yields
\* ("" for an empty rev-list, "throw" when the git fetch fails).
\* result: [hash, net, error]
getHash(ref, refs, old) ==
  LET h == FirstIdx({i \in 1..Len(refs) : refs[i].type = "HEAD"})
      sel == selectRef(refs, ref)
  IN IF ref = "HEAD"
       THEN [hash |-> IF h # 0 THEN refs[h].hash ELSE "",
             net |-> {"lsRemote"}, error |-> ""]
     ELSE IF sel # ""
       THEN [hash |-> sel, net |-> {"lsRemote"}, error |-> ""]
     ELSE IF isFullCommitHash(ref)
       THEN [hash |-> ref, net |-> {"lsRemote"}, error |-> ""]
     ELSE IF old = "throw"
       THEN [hash |-> "", net |-> {"lsRemote", "fetchOld"},
             error |-> "COULD_NOT_FETCH"]
     ELSE [hash |-> old, net |-> {"lsRemote", "fetchOld"}, error |-> ""]

\* offline resolution that looks a full hash up in map.json as well
ResolveOffline_MapOnly ==
  /\ run.pc = "resolve"
  /\ run.offlineMode
  /\ LET hash == Lookup(run.cached, run.ref)
     IN run' = IF hash = "" THEN Fail("MISSING_REF")
               ELSE [run EXCEPT !.pc = "acquire", !.hash = hash]
  /\ UNCHANGED <<mapJson, accessJson, tarballs, clock, pre>>

\* offline resolution that reports a missing hash as a missing tarball
ResolveOffline_CacheMiss ==
  /\ run.pc = "resolve"
  /\ run.offlineMode
  /\ LET hash == IF isFullCommitHash(run.ref) THEN run.ref
                 ELSE Lookup(run.cached, run.ref)
     IN run' = IF hash = "" THEN Fail("CACHE_MISS")
               ELSE [run EXCEPT !.pc = "acquire", !.hash = hash]
  /\ UNCHANGED <<mapJson, accessJson, tarballs, clock, pre>>

\* lines 825-841, offline: the ref itself or the map.json entry
ResolveOffline ==
  /\ run.pc = "resolve"
  /\ run.offlineMode
  /\ LET hash == IF isFullCommitHash(run.ref) THEN run.ref
                 ELSE Lookup(run.cached, run.ref)
     IN run' = IF hash = "" THEN Fail("MISSING_REF")
               ELSE [run EXCEPT !.pc = "acquire", !.hash = hash]
  /\ UNCHANGED <<mapJson, accessJson, tarballs, clock, pre>>

\* lines 825-841, online: getHash; the listing itself may fail
ResolveOnline(lsFails, refs, old) ==
  /\ run.pc = "resolve"
  /\ ~run.offlineMode
  /\ LET r == getHash(run.ref, refs, old)
     IN run' =
          IF lsFails
            THEN [Fail("COULD_NOT_FETCH") EXCEPT !.net = {"lsRemote"}]
          ELSE IF r.error # ""
            THEN [Fail(r.error) EXCEPT !.net = r.net]
          ELSE IF r.hash = ""
            THEN [Fail("MISSING_REF") EXCEPT !.net = r.net]
          ELSE [run EXCEPT !.pc = "acquire", !.hash = r.hash, !.net = r.net]
  /\ UNCHANGED <<mapJson, accessJson, tarballs, clock, pre>>

(* fetchRefs on the raw rows of `git ls-remote`: a row is a hash and a ref *)
(* string.  RefMatch is /refs\/(\w+)\/(.+)/ on the ref strings of the      *)
(* model: the two groups, or <<>> when the expression does not match.      *)
RawRefs == {"HEAD", "refs/heads/main", "refs/heads/dev", "main", "refs/heads"}

RefMatch(ref) ==
  CASE ref = "refs/heads/main" -> <<"heads", "main">>
    [] ref = "refs/heads/dev" -> <<"heads", "dev">>
    [] OTHER -> <<>>

RawRow(hash, ref) == [hash |-> hash, ref |-> ref]

\* listings of one or two rows
RawListings ==
  LET rows == {RawRow(h, r) : h \in Hashes, r \in RawRefs}
  IN {<<a>> : a \in rows} \cup {<<a, b>> : a \in rows, b \in rows}

\* the callback of .map(): the parsed row, or the BAD_REF it throws
ParseRow(row) ==
  IF row.ref = "HEAD" THEN RefRow("HEAD", row.hash, row.hash)
  ELSE IF RefMatch(row.ref) = <<>> THEN [type |-> "BAD_REF", name |-> row.ref,
                                         hash |-> row.hash]
  ELSE RefRow(IF RefMatch(row.ref)[1] = "heads" THEN "branch"
              ELSE IF RefMatch(row.ref)[1] = "refs" THEN "ref"
              ELSE RefMatch(row.ref)[1],
              RefMatch(row.ref)[2], row.hash)

\* fetchRefs: [refs, error, original, badRef]; whatever is thrown inside the
\* try block, the BAD_REF of a row included, is caught and replaced by a
\* COULD_NOT_FETCH error that keeps the caught one as its original
fetchRefs(raw) ==
  LET bad == {i \in 1..Len(raw) : ParseRow(raw[i]).type = "BAD_REF"}
  IN IF bad = {}
       THEN [refs |-> [i \in 1..Len(raw) |-> ParseRow(raw[i])], error |-> "",
             original |-> <<>>, badRef |-> ""]
     ELSE [refs |-> <<>>, error |-> "COULD_NOT_FETCH",
           original |-> <<"BAD_REF">>, badRef |-> raw[FirstIdx(bad)].ref]

\* lines 825-841, online, when a row of the listing cannot be parsed: getHash
\* catches the error of fetchRefs and wraps it once more (tiged.ts 728-738)
ResolveOnlineBadRow(raw) ==
  /\ run.pc = "resolve"
  /\ ~run.offlineMode
  /\ fetchRefs(raw).error # ""
  /\ run' = [Fail("COULD_NOT_FETCH") EXCEPT
               !.net = {"lsRemote"},
               !.errorRef = run.ref,
               !.original = <<fetchRefs(raw).error>> \o fetchRefs(raw).original,
               !.badRef = fetchRefs(raw).badRef]
  /\ UNCHANGED <<mapJson, accessJson, tarballs, clock, pre>>

\* a tarball step that goes on to the extraction without updateCache
AfterAcquire_SkipsUpdate == "extract"

\* after the tarball step: updateCache unless caching is disabled (line 950)
AfterAcquire == IF run.disableCache THEN "extract" ELSE "updateAccess"

\* offline acquisition that downloads a missing tarball
AcquireOffline_Downloads ==
  /\ run.pc = "acquire"
  /\ run.offlineMode
  /\ IF run.disableCache
       THEN run' = Fail("BAD_REF") /\ UNCHANGED tarballs
     ELSE IF tarballs[run.hash] = "none"
       THEN /\ run' = [run EXCEPT !.pc = "updateAccess",
                                  !.net = @ \cup {"download"}]
            /\ tarballs' = [tarballs EXCEPT ![run.hash] = "full"]
     ELSE /\ run' = [run EXCEPT !.pc = "updateAccess", !.reused = TRUE]
          /\ UNCHANGED tarballs
  /\ UNCHANGED <<mapJson, accessJson, clock, pre>>

\* offline acquisition that does not stat the tarball
AcquireOffline_NoStat ==
  /\ run.pc = "acquire"
  /\ run.offlineMode
  /\ run' = IF run.disableCache THEN Fail("BAD_REF")
            ELSE [run EXCEPT !.pc = "updateAccess", !.reused = TRUE]
  /\ UNCHANGED <<mapJson, accessJson, tarballs, clock, pre>>

\* lines 864-892: offline, the tarball must be there
AcquireOffline ==
  /\ run.pc = "acquire"
  /\ run.offlineMode
  /\ run' = IF run.disableCache THEN Fail("BAD_REF")
            ELSE IF tarballs[run.hash] = "none" THEN Fail("CACHE_MISS")
            ELSE [run EXCEPT !.pc = AfterAcquire, !.reused = TRUE]
  /\ UNCHANGED <<mapJson, accessJson, tarballs, clock, pre>>

\* downloadTarball (utils.ts 202-285): "ok" writes the whole file; "refused"
\* fails before the write stream is opened; "broken" fails while the stream,
\* which has created or truncated the file, is being written.
DownloadOutcomes == {"ok", "refused", "broken"}

\* online acquisition that stats the tarball even with caching disabled
AcquireOnline_ReusesAlways(dl) ==
  /\ run.pc = "acquire"
  /\ ~run.offlineMode
  /\ IF tarballs[run.hash] # "none"
       THEN /\ run' = [run EXCEPT !.pc = AfterAcquire, !.reused = TRUE]
            /\ UNCHANGED tarballs
       ELSE /\ run' = IF dl = "ok"
                        THEN [run EXCEPT !.pc = AfterAcquire,
                                         !.net = @ \cup {"download"}]
                        ELSE [Fail("COULD_NOT_DOWNLOAD") EXCEPT
                                         !.net = run.net \cup {"download"}]
            /\ tarballs' = [tarballs EXCEPT ![run.hash] =
                              CASE dl = "ok" -> "full"
                                [] dl = "broken" -> "partial"
                                [] OTHER -> @]
  /\ UNCHANGED <<mapJson, accessJson, clock, pre>>

\* online acquisition that never stats the tarball
AcquireOnline_AlwaysDownloads(dl) ==
  /\ run.pc = "acquire"
  /\ ~run.offlineMode
  /\ run' = IF dl = "ok"
              THEN [run EXCEPT !.pc = AfterAcquire, !.net = @ \cup {"download"}]
              ELSE [Fail("COULD_NOT_DOWNLOAD") EXCEPT
                               !.net = run.net \cup {"download"}]
  /\ tarballs' = [tarballs EXCEPT ![run.hash] =
                    CASE dl = "ok" -> "full"
                      [] dl = "broken" -> "partial"
                      [] OTHER -> @]
  /\ UNCHANGED <<mapJson, accessJson, clock, pre>>

\* lines 893-948: online, stat then download
AcquireOnline(dl) ==
  /\ run.pc = "acquire"
  /\ ~run.offlineMode
  /\ IF ~run.disableCache /\ tarballs[run.hash] # "none"
       THEN /\ run' = [run EXCEPT !.pc = AfterAcquire, !.reused = TRUE]
            /\ UNCHANGED tarballs
       ELSE /\ run' = IF dl = "ok"
                        THEN [run EXCEPT !.pc = AfterAcquire,
                                         !.net = @ \cup {"download"}]
                        ELSE [Fail("COULD_NOT_DOWNLOAD") EXCEPT
                                         !.net = run.net \cup {"download"}]
            /\ tarballs' = [tarballs EXCEPT ![run.hash] =
                              CASE dl = "ok" -> "full"
                                [] dl = "broken" -> "partial"
                                [] OTHER -> @]
  /\ UNCHANGED <<mapJson, accessJson, clock, pre>>

-----------------------------------------------------------------------------
(* updateCache (utils.ts 702-764), one step per awaited file operation.    *)

\* updateCache without the early return for an unchanged hash
UpdateAccess_NoEarlyReturn ==
  /\ run.pc = "updateAccess"
  /\ accessJson' = [exists |-> TRUE,
                    content |-> Assign(tryRequire(accessJson), run.ref, clock)]
  /\ run' = [run EXCEPT !.pc = "evict"]
  /\ UNCHANGED <<mapJson, tarballs, clock, pre>>

\* lines 713-725: stamp the access log; stop if the ref's hash is unchanged
UpdateAccess ==
  /\ run.pc = "updateAccess"
  /\ accessJson' = [exists |-> TRUE,
                    content |-> Assign(tryRequire(accessJson), run.ref, clock)]
  /\ run' = [run EXCEPT !.pc = IF Lookup(run.cached, run.ref) = run.hash
                                 THEN "extract" ELSE "evict"]
  /\ UNCHANGED <<mapJson, tarballs, clock, pre>>

\* the reference scan without skipping the ref being updated
usedElsewhere_IncludesSelf(cached, ref, hash) ==
  \E key \in DOMAIN cached : cached[key] = hash

\* lines 730-742: does another key of cached hold hash?
usedElsewhere(cached, ref, hash) ==
  \E key \in DOMAIN cached : key # ref /\ cached[key] = hash

\* lines 727-755: unlink the superseded tarball unless another ref uses it
EvictOld ==
  /\ run.pc = "evict"
  /\ LET oldHash == Lookup(run.cached, run.ref)
     IN tarballs' =
          IF oldHash # "" /\ ~usedElsewhere(run.cached, run.ref, oldHash)
            THEN [tarballs EXCEPT ![oldHash] = "none"]
            ELSE tarballs
  /\ run' = [run EXCEPT !.pc = "writeMap"]
  /\ UNCHANGED <<mapJson, accessJson, clock, pre>>

\* lines 757-763: cached[ref] = hash, write map.json
WriteMap ==
  /\ run.pc = "writeMap"
  /\ LET cached == Assign(run.cached, run.ref, run.hash)
     IN /\ mapJson' = [exists |-> TRUE, content |-> cached]
        /\ run' = [run EXCEPT !.pc = "extract", !.cached = cached]
  /\ UNCHANGED <<accessJson, tarballs, clock, pre>>

-----------------------------------------------------------------------------
(* Tiged.cloneWithTar, lines 961-979: extraction and clean-up.             *)

\* what untarToDir can do with <hash>.tar.gz: a truncated file does not
\* gunzip; a complete archive extracts, matches nothing, or has a bad path
UntarOutcomes(state) ==
  IF state = "full" THEN {"ok", "empty", "BAD_TAR_PATH"} ELSE {"GUNZIP"}

\* lines 963-975; wrote: BAD_TAR_PATH may follow entries already written
Extract(outcome, wrote) ==
  /\ run.pc = "extract"
  /\ outcome \in UntarOutcomes(tarballs[run.hash])
  /\ wrote = TRUE => outcome \in {"ok", "BAD_TAR_PATH"}
  /\ wrote = FALSE => outcome # "ok"
  /\ LET r == [run EXCEPT !.extractedFrom = run.hash, !.wrote = wrote,
                          !.untar = outcome]
     IN run' = CASE outcome = "ok" -> [r EXCEPT !.pc = "cleanup"]
                 [] outcome = "empty" ->
                      [r EXCEPT !.pc = "failed", !.error = "NO_FILES",
                                !.failedAt = "extract"]
                 [] OTHER ->
                      [r EXCEPT !.pc = "failed", !.error = outcome,
                                !.failedAt = "extract"]
  /\ UNCHANGED <<mapJson, accessJson, tarballs, clock, pre>>

\* clean-up that leaves the downloaded tarball in place
Cleanup_NoRm ==
  /\ run.pc = "cleanup"
  /\ run' = [run EXCEPT !.pc = "done"]
  /\ UNCHANGED <<mapJson, accessJson, tarballs, clock, pre>>

\* lines 977-979: with caching disabled the tarball is removed
Cleanup ==
  /\ run.pc = "cleanup"
  /\ tarballs' = IF run.disableCache
                   THEN [tarballs EXCEPT ![run.hash] = "none"]
                   ELSE tarballs
  /\ run' = [run EXCEPT !.pc = "done"]
  /\ UNCHANGED <<mapJson, accessJson, clock, pre>>

-----------------------------------------------------------------------------
(* Strings of src/src/tar.ts: sequences of one-character strings.          *)

MaxNameLen == 3
MaxLeadLen == 1

\* the characters entry names are made of
Chars == {"a", ".", "/"}

RECURSIVE StringsUpTo(_)
StringsUpTo(n) ==
  IF n = 0 THEN {<<>>}
  ELSE LET shorter == StringsUpTo(n - 1)
       IN shorter \cup {Append(s, c) : s \in {t \in shorter : Len(t) = n - 1},
                                       c \in Chars}

\* s.startsWith(prefix)
startsWith(s, prefix) ==
  Len(prefix) <= Len(s) /\ SubSeq(s, 1, Len(prefix)) = prefix

\* s.slice(n)
slice(s, n) == SubSeq(s, n + 1, Len(s))

\* s.replace(/\\/g, '/')
ReplaceBackslashes(s) == [i \in 1..Len(s) |-> IF s[i] = "\\" THEN "/" ELSE s[i]]

\* s.replace(/^\/+/, '')
RECURSIVE StripLeadingSlashes(_)
StripLeadingSlashes(s) ==
  IF s # <<>> /\ Head(s) = "/" THEN StripLeadingSlashes(Tail(s)) ELSE s

\* s.replace(/\/+$/, '')
RECURSIVE StripTrailingSlashes(_)
StripTrailingSlashes(s) ==
  IF s # <<>> /\ s[Len(s)] = "/"
    THEN StripTrailingSlashes(SubSeq(s, 1, Len(s) - 1))
    ELSE s

\* s.replace(/^\.\//, '')
StripDotSlash(s) == IF startsWith(s, <<".", "/">>) THEN slice(s, 2) ELSE s

\* s.split('/'): the segments between slashes, empty ones included
RECURSIVE SplitFrom(_, _, _)
SplitFrom(s, i, cur) ==
  IF i > Len(s) THEN <<cur>>
  ELSE IF s[i] = "/" THEN <<cur>> \o SplitFrom(s, i + 1, <<>>)
  ELSE SplitFrom(s, i + 1, Append(cur, s[i]))

split(s) == SplitFrom(s, 1, <<>>)

\* segs.join('/')
RECURSIVE join(_)
join(segs) ==
  IF segs = <<>> THEN <<>>
  ELSE IF Len(segs) = 1 THEN segs[1]
  ELSE segs[1] \o <<"/">> \o join(Tail(segs))

\* segs.filter(Boolean)
NonEmpty(segs) == SelectSeq(segs, LAMBDA seg : seg # <<>>)

DotDot == <<".", ".">>
Dot == <<".">>

\* node:path normalizeString: drop "" and ".", resolve ".." against the
\* segment before it; a ".." with nothing to cancel is kept only when
\* allowAboveRoot
RECURSIVE normalizeString(_, _, _)
normalizeString(segs, allowAboveRoot, res) ==
  IF segs = <<>> THEN res
  ELSE LET seg == Head(segs)
           rest == Tail(segs)
       IN IF seg = <<>> \/ seg = Dot
            THEN normalizeString(rest, allowAboveRoot, res)
          ELSE IF seg = DotDot
            THEN IF res # <<>> /\ res[Len(res)] # DotDot
                   THEN normalizeString(rest, allowAboveRoot,
                                        SubSeq(res, 1, Len(res) - 1))
                 ELSE IF allowAboveRoot
                   THEN normalizeString(rest, allowAboveRoot, Append(res, seg))
                 ELSE normalizeString(rest, allowAboveRoot, res)
          ELSE normalizeString(rest, allowAboveRoot, Append(res, seg))

\* path.posix.isAbsolute
isAbsolute(s) == s # <<>> /\ s[1] = "/"

\* path.posix.normalize
posixNormalize(s) ==
  IF s = <<>> THEN Dot
  ELSE LET abs == isAbsolute(s)
           trailing == s[Len(s)] = "/"
           body == join(normalizeString(split(s), ~abs, <<>>))
       IN IF body = <<>>
            THEN IF abs THEN <<"/">>
                 ELSE IF trailing THEN <<".", "/">> ELSE Dot
          ELSE (IF abs THEN <<"/">> ELSE <<>>) \o body
               \o (IF trailing THEN <<"/">> ELSE <<>>)

\* path.posix.basename of a path without trailing slash
basename(s) == LET segs == split(s) IN segs[Len(segs)]

\* path.resolve(destResolved, ...parts) on a POSIX host: destResolved is
\* absolute, no part contains a slash
pathResolve(destResolved, parts) ==
  <<"/">> \o join(normalizeString(split(destResolved) \o parts, FALSE, <<>>))

\* tar.ts 61-65
normalizeTarPath(input) ==
  posixNormalize(StripDotSlash(StripLeadingSlashes(ReplaceBackslashes(input))))

\* root stripping that only recognises the root folder itself
splitRootPrefix_NoStrip(fullPosixPath, rootPrefix) ==
  LET p == StripTrailingSlashes(normalizeTarPath(fullPosixPath))
  IN IF rootPrefix = <<>> THEN p
     ELSE IF p = rootPrefix THEN <<>>
     ELSE p

\* tar.ts 67-74
splitRootPrefix(fullPosixPath, rootPrefix) ==
  LET p == StripTrailingSlashes(normalizeTarPath(fullPosixPath))
      prefix == rootPrefix \o <<"/">>
  IN IF rootPrefix = <<>> THEN p
     ELSE IF p = rootPrefix THEN <<>>
     ELSE IF startsWith(p, prefix) THEN slice(p, Len(prefix))
     ELSE p

\* ensureSafeOutPath without the ".." and containment checks
ensureSafeOutPath_Unchecked(destResolved, relativePosixPath) ==
  LET rel == StripLeadingSlashes(normalizeTarPath(relativePosixPath))
      parts == NonEmpty(split(rel))
      outPath == pathResolve(destResolved, parts)
  IN IF rel = <<>> THEN <<>>
     ELSE IF parts = <<>> THEN <<>>
     ELSE IF outPath = destResolved THEN <<>>
     ELSE outPath

\* tar.ts 76-88; null is rendered as the empty string
ensureSafeOutPath(destResolved, relativePosixPath) ==
  LET rel == StripLeadingSlashes(normalizeTarPath(relativePosixPath))
      parts == NonEmpty(split(rel))
      outPath == pathResolve(destResolved, parts)
  IN IF rel = <<>> THEN <<>>
     ELSE IF isAbsolute(rel) THEN <<>>
     ELSE IF parts = <<>> THEN <<>>
     ELSE IF \E i \in 1..Len(parts) : parts[i] = DotDot THEN <<>>
     ELSE IF outPath = destResolved THEN <<>>
     ELSE IF ~startsWith(outPath, destResolved \o <<"/">>) THEN <<>>
     ELSE outPath

-----------------------------------------------------------------------------
(* scanTarGz and untarToDir over a decoded archive: the sequence of its    *)
(* 512-byte header blocks in archive order, each with the fields           *)
(* parseHeaderAt reads and, for PAX and long-name blocks, the decoded data. *)

TarTypes == {"file", "directory", "other"}

\* type flags: regular file, directory, symbolic link
TypeChars == {"0", "5", "2"}

\* a header block: name (bytes 0-100), typeflag (byte 156), ustar magic
\* (bytes 257-263), prefix (bytes 345-500); data is the `path` value of a PAX
\* block ("" when it has none) or the name held by a long-name block
Block(name, typeChar, prefix, ustar, data) ==
  [name |-> name, typeChar |-> typeChar, prefix |-> prefix, ustar |-> ustar,
   data |-> data]

\* a block without prefix, magic and data
Plain(name, typeChar) == Block(name, typeChar, <<>>, FALSE, <<>>)

\* tar.ts 108-113
headerType(typeChar) ==
  IF typeChar = "5" THEN "directory"
  ELSE IF typeChar = "0" \/ typeChar = "NUL" THEN "file"
  ELSE "other"

\* tar.ts 104-106
fullName(block) ==
  IF block.ustar /\ block.prefix # <<>>
    THEN block.prefix \o <<"/">> \o block.name
    ELSE block.name

\* the name and type an entry is processed with
Entry(name, type) == [name |-> name, type |-> type]

\* tar.ts 179-181 and 268-270; null and '' are both rendered as <<>>
effectiveName_LongNameFirst(headerName, pendingLongName, pendingPax) ==
  IF pendingLongName # <<>> THEN pendingLongName
  ELSE IF pendingPax # <<>> THEN pendingPax
  ELSE headerName

effectiveName(headerName, pendingLongName, pendingPax) ==
  IF pendingPax # <<>> THEN pendingPax
  ELSE IF pendingLongName # <<>> THEN pendingLongName
  ELSE headerName

\* names written with backslashes ("\\" is one backslash character)
BackslashNames ==
  {<<"\\", "a">>, <<".", ".", "\\", "a">>, <<"a", "\\", ".", ".">>,
   <<"a", "\\", "a">>}

Entries ==
  {Plain(n, c) : n \in StringsUpTo(MaxNameLen) \cup BackslashNames,
                 c \in TypeChars}

\* entries that may precede the entry under study
LeadEntries == {Plain(n, c) : n \in StringsUpTo(MaxLeadLen), c \in TypeChars}

\* a repository archive as the hosts build it: the top-level folder "a/"
\* first, then entries below it
RootEntry == Plain(<<"a", "/">>, "5")

WrappedNames ==
  {<<"a", "/", "a">>, <<"a", "/", "a", "/", "a">>, <<"a", "/", "a", "a">>,
   <<"a", "/", "a", "a", "/", "a">>, <<"a", "/", "a", "/", "a", "/", "a">>}

WrappedEntries == {Plain(n, c) : n \in WrappedNames, c \in TypeChars \cup {"NUL"}}

WrappedArchives ==
  {<<RootEntry, e1, e2>> : e1 \in WrappedEntries, e2 \in WrappedEntries}

\* PAX (x, g) and long-name (L) blocks, and the headers they precede
MetaBlocks ==
  {Block(<<>>, "x", <<>>, TRUE, d) : d \in {<<>>, <<"p", "/", "p">>}}
  \cup {Block(<<>>, "g", <<>>, TRUE, <<"g", "/", "g">>)}
  \cup {Block(<<>>, "L", <<>>, TRUE, d) : d \in {<<>>, <<"l", "/", "l">>}}

MetaHeaders ==
  {Block(<<"h">>, c, prefix, u, <<>>) :
     c \in {"0", "5", "2"}, prefix \in {<<>>, <<"h">>}, u \in BOOLEAN}

MetaArchives ==
  {metas \o <<h>> \o rest :
     metas \in {<<>>} \cup {<<m>> : m \in MetaBlocks}
                      \cup {<<m1, m2>> : m1 \in MetaBlocks, m2 \in MetaBlocks},
     h \in MetaHeaders,
     rest \in {<<>>} \cup {<<h2>> : h2 \in MetaHeaders}}

Archives ==
  {<<>>} \cup {<<e>> : e \in Entries}
         \cup {<<l, e>> : l \in LeadEntries, e \in Entries}

\* the subdir argument; the empty string stands for null as well
Subdirs == {<<>>, <<"a">>, <<"a", "/", "a">>, <<"a", "/", ".", ".">>,
            <<"/", "a", "/">>}

\* the subdir argument as cloneWithTar builds it (tiged.ts 844-846): the
\* top-level folder, then the path inside the repository
WrappedSubdirs ==
  {<<>>, <<"a", "/", "a">>, <<"a", "/", "a", "/", "a">>,
   <<"a", "/", "a", "a">>, <<"a", "/", "a", "/", "a", "a">>}

MetaSubdirs == {<<>>, <<"p", "/", "p">>, <<"l", "/", "l">>, <<"h", "/", "h">>}

PaxGlobalHeader ==
  <<"p", "a", "x", "_", "g", "l", "o", "b", "a", "l", "_",
    "h", "e", "a", "d", "e", "r">>

\* archives that start with a file named like the PAX global header
SentinelArchives ==
  {<<Plain(PaxGlobalHeader, "0"), h>> : h \in MetaHeaders}

\* the (archive, subdir) pairs untarToDir is applied to
TarInputs ==
  (Archives \X Subdirs) \cup (WrappedArchives \X WrappedSubdirs)
                        \cup (MetaArchives \X MetaSubdirs)
                        \cup (SentinelArchives \X MetaSubdirs)

\* the resolved destination directory, which exists (tiged.ts 818, 961)
DestResolved == <<"/", "d">>

\* tar.ts 145-147
ScanStart(subdirNorm) ==
  [rootPrefix |-> <<>>, subdirRelNorm |-> subdirNorm, isSubDirFile |-> FALSE]

\* scan iteration that takes the root prefix from every qualifying entry
ScanEntry_LastWins(st, e, subdirNorm) ==
  LET nameNorm == normalizeTarPath(e.name)
      first == split(nameNorm)[1]
      found == /\ e.type \in {"file", "directory"}
               /\ first # <<>> /\ first # Dot /\ first # PaxGlobalHeader
      rootPrefix == IF found THEN first ELSE st.rootPrefix
      subdirRelNorm ==
        IF found
          THEN IF subdirNorm # <<>> THEN splitRootPrefix(subdirNorm, rootPrefix)
               ELSE <<>>
          ELSE st.subdirRelNorm
      hit == /\ subdirRelNorm # <<>>
             /\ e.type = "file"
             /\ splitRootPrefix(nameNorm, rootPrefix) = subdirRelNorm
  IN [rootPrefix |-> rootPrefix, subdirRelNorm |-> subdirRelNorm,
      isSubDirFile |-> st.isSubDirFile \/ hit]

\* tar.ts 185-201: one iteration of the scan loop on a real entry
ScanEntry(st, e, subdirNorm) ==
  LET nameNorm == normalizeTarPath(e.name)
      first == split(nameNorm)[1]
      found == /\ st.rootPrefix = <<>>
               /\ e.type \in {"file", "directory"}
               /\ first # <<>> /\ first # Dot /\ first # PaxGlobalHeader
      rootPrefix == IF found THEN first ELSE st.rootPrefix
      subdirRelNorm ==
        IF found
          THEN IF subdirNorm # <<>> THEN splitRootPrefix(subdirNorm, rootPrefix)
               ELSE <<>>
          ELSE st.subdirRelNorm
      hit == /\ subdirRelNorm # <<>>
             /\ e.type = "file"
             /\ splitRootPrefix(nameNorm, rootPrefix) = subdirRelNorm
  IN [rootPrefix |-> rootPrefix, subdirRelNorm |-> subdirRelNorm,
      isSubDirFile |-> st.isSubDirFile \/ hit]

\* tar.ts 149-150 with 145-147: the locals of the scan loop
ScanLoopStart(subdirNorm) ==
  [scan |-> ScanStart(subdirNorm), pendingPax |-> <<>>,
   pendingLongName |-> <<>>]

\* tar.ts 163-203: one iteration of the scan loop on a header block
ScanBlock(lp, block, subdirNorm) ==
  IF block.typeChar = "g" THEN lp
  ELSE IF block.typeChar = "x" THEN [lp EXCEPT !.pendingPax = block.data]
  ELSE IF block.typeChar = "L" THEN [lp EXCEPT !.pendingLongName = block.data]
  ELSE LET name == effectiveName(fullName(block), lp.pendingLongName,
                                 lp.pendingPax)
           e == Entry(name, headerType(block.typeChar))
       IN [scan |-> ScanEntry(lp.scan, e, subdirNorm), pendingPax |-> <<>>,
           pendingLongName |-> <<>>]

\* tar.ts 142-207
RECURSIVE scanFrom(_, _, _, _)
scanFrom(archive, i, lp, subdirNorm) ==
  IF i > Len(archive) THEN lp.scan
  ELSE scanFrom(archive, i + 1, ScanBlock(lp, archive[i], subdirNorm), subdirNorm)

scanTarGz(archive, subdirNorm) ==
  scanFrom(archive, 1, ScanLoopStart(subdirNorm), subdirNorm)

\* tar.ts 223
SubdirNorm(subdir) ==
  IF subdir # <<>> THEN StripTrailingSlashes(normalizeTarPath(subdir)) ELSE <<>>

\* tar.ts 231-237
shouldInclude(relPath, scan) ==
  IF scan.subdirRelNorm = <<>> THEN TRUE
  ELSE IF scan.isSubDirFile THEN relPath = scan.subdirRelNorm
  ELSE \/ relPath = scan.subdirRelNorm
       \/ startsWith(relPath, scan.subdirRelNorm \o <<"/">>)

\* output path mapping that matches the sub-directory as a string prefix
outRelPosix_StringPrefix(e, scan, subdirNorm) ==
  LET nameNorm == normalizeTarPath(e.name)
      rel == splitRootPrefix(nameNorm, scan.rootPrefix)
      relTrimmed == StripTrailingSlashes(rel)
      sub == scan.subdirRelNorm
      out ==
        IF subdirNorm = <<>> THEN relTrimmed
        ELSE IF scan.isSubDirFile
          THEN IF sub = <<>> \/ relTrimmed # sub THEN <<>> ELSE basename(sub)
        ELSE IF sub = <<>> THEN <<>>
        ELSE IF relTrimmed = sub THEN <<>>
        ELSE IF ~startsWith(relTrimmed, sub) THEN <<>>
        ELSE StripLeadingSlashes(slice(relTrimmed, Len(sub)))
  IN IF out = Dot THEN <<>> ELSE out

\* output path mapping that keeps the whole relative path of a single-file
\* target
outRelPosix_KeepsPath(e, scan, subdirNorm) ==
  LET nameNorm == normalizeTarPath(e.name)
      rel == splitRootPrefix(nameNorm, scan.rootPrefix)
      relTrimmed == StripTrailingSlashes(rel)
      sub == scan.subdirRelNorm
      out ==
        IF ~shouldInclude(relTrimmed, scan) THEN <<>>
        ELSE IF subdirNorm = <<>> THEN relTrimmed
        ELSE IF scan.isSubDirFile
          THEN IF sub = <<>> \/ relTrimmed # sub THEN <<>> ELSE sub
        ELSE IF sub = <<>> THEN <<>>
        ELSE IF relTrimmed = sub THEN <<>>
        ELSE IF ~startsWith(relTrimmed, sub \o <<"/">>) THEN <<>>
        ELSE slice(relTrimmed, Len(sub) + 1)
  IN IF out = Dot THEN <<>> ELSE out

\* tar.ts 274-315: the output-relative path of an entry, "" when skipped
outRelPosix(e, scan, subdirNorm) ==
  LET nameNorm == normalizeTarPath(e.name)
      rel == splitRootPrefix(nameNorm, scan.rootPrefix)
      relTrimmed == StripTrailingSlashes(rel)
      sub == scan.subdirRelNorm
      out ==
        IF ~shouldInclude(relTrimmed, scan) THEN <<>>
        ELSE IF subdirNorm = <<>> THEN relTrimmed
        ELSE IF scan.isSubDirFile
          THEN IF sub = <<>> \/ relTrimmed # sub THEN <<>> ELSE basename(sub)
        ELSE IF sub = <<>> THEN <<>>
        ELSE IF relTrimmed = sub THEN <<>>
        ELSE IF ~startsWith(relTrimmed, sub \o <<"/">>) THEN <<>>
        ELSE slice(relTrimmed, Len(sub) + 1)
  IN IF out = Dot THEN <<>> ELSE out

\* the path and its ancestors, "/" included
PrefixPaths(p) ==
  LET segs == NonEmpty(split(p))
  IN {<<"/">> \o join(SubSeq(segs, 1, k)) : k \in 0..Len(segs)}

\* path.dirname of an absolute path
dirname(p) ==
  LET segs == NonEmpty(split(p))
  IN <<"/">> \o join(SubSeq(segs, 1, Len(segs) - 1))

\* fs.mkdir(p, {recursive: true}): the directories it brings into being
mkdirRecursive(p, destResolved) == PrefixPaths(p) \ PrefixPaths(destResolved)

InitTar ==
  /\ InitCache
  /\ cl = [pc |-> "off"]
  /\ \E input \in TarInputs :
       tar = [pc |-> "scan", archive |-> input[1], subdir |-> input[2],
              subdirNorm |-> SubdirNorm(input[2]),
              scan |-> ScanStart(<<>>), i |-> 1,
              pendingPax |-> <<>>, pendingLongName |-> <<>>,
              dirs |-> {}, files |-> {}, extractedFiles |-> <<>>,
              writtenIdx |-> {}, name |-> <<>>, out |-> <<>>,
              outPath |-> <<>>, error |-> "", thrown |-> ""]

\* tar.ts 221-229: read the archive, run the classification pass
TarScan ==
  /\ tar.pc = "scan"
  /\ tar' = [tar EXCEPT !.pc = "extract",
                        !.scan = scanTarGz(tar.archive, tar.subdirNorm)]

\* extraction loop in which a global PAX block drops the pending overrides
TarMeta_GlobalClears ==
  /\ tar.pc = "extract"
  /\ tar.i <= Len(tar.archive)
  /\ LET block == tar.archive[tar.i]
         next == [tar EXCEPT !.i = tar.i + 1, !.name = <<>>, !.out = <<>>,
                             !.outPath = <<>>]
     IN /\ block.typeChar \in {"g", "x", "L"}
        /\ tar' = IF block.typeChar = "x"
                    THEN [next EXCEPT !.pendingPax = block.data]
                  ELSE IF block.typeChar = "L"
                    THEN [next EXCEPT !.pendingLongName = block.data]
                  ELSE [next EXCEPT !.pendingPax = <<>>,
                                    !.pendingLongName = <<>>]

\* tar.ts 253-266: a PAX or long-name block sets the pending override
TarMeta ==
  /\ tar.pc = "extract"
  /\ tar.i <= Len(tar.archive)
  /\ LET block == tar.archive[tar.i]
         next == [tar EXCEPT !.i = tar.i + 1, !.name = <<>>, !.out = <<>>,
                             !.outPath = <<>>]
     IN /\ block.typeChar \in {"g", "x", "L"}
        /\ tar' = IF block.typeChar = "x"
                    THEN [next EXCEPT !.pendingPax = block.data]
                  ELSE IF block.typeChar = "L"
                    THEN [next EXCEPT !.pendingLongName = block.data]
                  ELSE next

\* extraction loop that skips an entry with an unsafe path instead of failing
TarEntry_SkipsUnsafe ==
  /\ tar.pc = "extract"
  /\ tar.i <= Len(tar.archive)
  /\ LET block == tar.archive[tar.i]
         name == effectiveName(fullName(block), tar.pendingLongName,
                               tar.pendingPax)
         e == Entry(name, headerType(block.typeChar))
         out == outRelPosix(e, tar.scan, tar.subdirNorm)
         outPath == ensureSafeOutPath(DestResolved, out)
         next == [tar EXCEPT !.i = tar.i + 1, !.name = name, !.out = out,
                             !.outPath = <<>>,
                             !.pendingPax = <<>>, !.pendingLongName = <<>>]
     IN /\ block.typeChar \notin {"g", "x", "L"}
        /\ tar' =
             IF out = <<>> \/ outPath = <<>> THEN next
             ELSE IF e.type = "directory"
               THEN [next EXCEPT
                       !.dirs = @ \cup mkdirRecursive(outPath, DestResolved),
                       !.extractedFiles = Append(@, out),
                       !.writtenIdx = @ \cup {tar.i},
                       !.outPath = outPath]
             ELSE IF e.type # "file" THEN next
             ELSE [next EXCEPT
                     !.dirs = @ \cup mkdirRecursive(dirname(outPath), DestResolved),
                     !.files = @ \cup {outPath},
                     !.extractedFiles = Append(@, out),
                     !.writtenIdx = @ \cup {tar.i},
                     !.outPath = outPath]

\* tar.ts 242-350: one iteration of the extraction loop on an entry
TarEntry ==
  /\ tar.pc = "extract"
  /\ tar.i <= Len(tar.archive)
  /\ LET block == tar.archive[tar.i]
         name == effectiveName(fullName(block), tar.pendingLongName,
                               tar.pendingPax)
         e == Entry(name, headerType(block.typeChar))
         out == outRelPosix(e, tar.scan, tar.subdirNorm)
         outPath == ensureSafeOutPath(DestResolved, out)
         next == [tar EXCEPT !.i = tar.i + 1, !.name = name, !.out = out,
                             !.outPath = <<>>,
                             !.pendingPax = <<>>, !.pendingLongName = <<>>]
     IN /\ block.typeChar \notin {"g", "x", "L"}
        /\ tar' =
             IF out = <<>> THEN next
             ELSE IF outPath = <<>>
               THEN [tar EXCEPT !.pc = "failed", !.error = "BAD_TAR_PATH",
                                !.name = name, !.out = out, !.outPath = <<>>,
                                !.pendingPax = <<>>, !.pendingLongName = <<>>]
             ELSE IF e.type = "directory"
               THEN [next EXCEPT
                       !.dirs = @ \cup mkdirRecursive(outPath, DestResolved),
                       !.extractedFiles = Append(@, out),
                       !.writtenIdx = @ \cup {tar.i},
                       !.outPath = outPath]
             ELSE IF e.type # "file" THEN next
             ELSE [next EXCEPT
                     !.dirs = @ \cup mkdirRecursive(dirname(outPath), DestResolved),
                     !.files = @ \cup {outPath},
                     !.extractedFiles = Append(@, out),
                     !.writtenIdx = @ \cup {tar.i},
                     !.outPath = outPath]

\* tar.ts 352
TarReturn ==
  /\ tar.pc = "extract"
  /\ tar.i > Len(tar.archive)
  /\ tar' = [tar EXCEPT !.pc = "done"]

\* a caller that takes an empty list for a successful extraction
TarCaller_NoCheck ==
  /\ tar.pc = "done"
  /\ tar' = [tar EXCEPT !.pc = "returned"]

\* tiged.ts 969-975: cloneWithTar on the list untarToDir returned
TarCaller ==
  /\ tar.pc = "done"
  /\ tar' = [tar EXCEPT !.pc = "returned",
                        !.thrown = IF Len(tar.extractedFiles) = 0
                                     THEN "NO_FILES" ELSE ""]

NextTar ==
  \/ TarScan /\ UNCHANGED <<cacheVars, cl>>
  \/ TarMeta /\ UNCHANGED <<cacheVars, cl>>
  \/ TarEntry /\ UNCHANGED <<cacheVars, cl>>
  \/ TarReturn /\ UNCHANGED <<cacheVars, cl>>
  \/ TarCaller /\ UNCHANGED <<cacheVars, cl>>

SpecTar == InitTar /\ [][NextTar]_vars

InitTarIdle == tar = [pc |-> "off"]

InitCloneIdle == cl = [pc |-> "off"]

Init == InitCache /\ InitTarIdle /\ InitCloneIdle

Next ==
  \/ \E ref \in Refs, offline \in BOOLEAN, disable \in BOOLEAN :
       StartClone(ref, offline, disable) /\ UNCHANGED <<tar, cl>>
  \/ ResolveOffline /\ UNCHANGED <<tar, cl>>
  \/ \E lsFails \in BOOLEAN, refs \in Listings, old \in MaybeHash \cup {"throw"} :
       ResolveOnline(lsFails, refs, old) /\ UNCHANGED <<tar, cl>>
  \/ \E raw \in RawListings : ResolveOnlineBadRow(raw) /\ UNCHANGED <<tar, cl>>
  \/ AcquireOffline /\ UNCHANGED <<tar, cl>>
  \/ \E dl \in DownloadOutcomes : AcquireOnline(dl) /\ UNCHANGED <<tar, cl>>
  \/ UpdateAccess /\ UNCHANGED <<tar, cl>>
  \/ EvictOld /\ UNCHANGED <<tar, cl>>
  \/ WriteMap /\ UNCHANGED <<tar, cl>>
  \/ \E outcome \in {"ok", "empty", "BAD_TAR_PATH", "GUNZIP"}, wrote \in BOOLEAN :
       Extract(outcome, wrote) /\ UNCHANGED <<tar, cl>>
  \/ Cleanup /\ UNCHANGED <<tar, cl>>

Spec == Init /\ [][Next]_vars

-----------------------------------------------------------------------------
(* Tiged.clone (tiged.ts 468-560) around cloneWithTar and cloneWithGit.    *)

MaxClones == 2

Modes == {"tar", "git"}
Sites == {"github", "huggingface"}

\* the destination directory: files left there before the clone ("prior")
\* and files the clone produces ("cloned")
DestAbsent == [exists |-> FALSE, files |-> {}]
DestStates ==
  {DestAbsent, [exists |-> TRUE, files |-> {}],
   [exists |-> TRUE, files |-> {"prior"}]}

NoClone ==
  [pc |-> "idle", count |-> 0, mode |-> "tar", site |-> "github",
   force |-> FALSE, offlineMode |-> FALSE, disableCache |-> FALSE,
   dest |-> DestAbsent, destPre |-> DestAbsent, net |-> {}, error |-> "",
   hasDirectives |-> FALSE]

InitClone == InitCache /\ InitTarIdle /\ cl = NoClone

\* checkDirIsEmpty that goes on with a non-empty destination as it is
checkDirIsEmpty_Continues(dest, force) ==
  [dest |-> dest, error |-> ""]

\* checkDirIsEmpty that, forced, goes on without removing the directory
checkDirIsEmpty_KeepsFiles(dest, force) ==
  IF dest.exists /\ dest.files # {} /\ ~force
    THEN [dest |-> dest, error |-> "DEST_NOT_EMPTY"]
    ELSE [dest |-> dest, error |-> ""]

\* tiged.ts 623-659: readdir; a missing directory (ENOENT) counts as empty;
\* a non-empty one is removed when forced, else DEST_NOT_EMPTY
checkDirIsEmpty(dest, force) ==
  IF dest.exists /\ dest.files # {}
    THEN IF force THEN [dest |-> DestAbsent, error |-> ""]
         ELSE [dest |-> dest, error |-> "DEST_NOT_EMPTY"]
    ELSE [dest |-> dest, error |-> ""]

\* tiged.ts 495-528: git mode, and tar mode for Hugging Face, use git
cloneMethod(mode, site) ==
  IF mode = "git" \/ site = "huggingface" THEN "git" ELSE "tar"

\* tiged.ts 468-528: clone() of a new Tiged instance up to the dispatch on
\* the mode; no cloneWithTar invocation is in progress
CloneBegin(mode, site, force, offline, disable, dest) ==
  /\ cl.pc \in {"idle", "done", "failed"}
  /\ cl.count < MaxClones
  /\ LET chk == checkDirIsEmpty(dest, force)
         c == [NoClone EXCEPT
                 !.count = cl.count + 1, !.mode = mode, !.site = site,
                 !.force = force, !.offlineMode = offline,
                 !.disableCache = disable, !.dest = chk.dest,
                 !.destPre = dest]
     IN cl' = IF chk.error # ""
                THEN [c EXCEPT !.pc = "failed", !.error = chk.error]
                ELSE [c EXCEPT !.pc = cloneMethod(mode, site)]
  /\ run' = NoRun
  /\ pre' = [map |-> mapJson, access |-> accessJson, tar |-> tarballs]
  /\ UNCHANGED <<mapJson, accessJson, tarballs, clock, tar>>

\* fs.mkdir(destinationDirectoryPath, {recursive: true})
mkdirDest(dest) == [dest EXCEPT !.exists = TRUE]

\* cloneWithTar entered: tiged.ts 818, then 820-823
CloneTarStart(ref) ==
  /\ cl.pc = "tar"
  /\ StartClone(ref, cl.offlineMode, cl.disableCache)
  /\ cl' = [cl EXCEPT !.pc = "inTar", !.dest = mkdirDest(@)]
  /\ UNCHANGED tar

\* a step of cloneWithTar that leaves the destination alone
CloneTarStep(A) ==
  /\ cl.pc = "inTar"
  /\ A
  /\ UNCHANGED <<tar, cl>>

\* tiged.ts 961-975: untarToDir writes into the destination
CloneTarExtract(outcome, wrote) ==
  /\ cl.pc = "inTar"
  /\ Extract(outcome, wrote)
  /\ cl' = [cl EXCEPT !.dest = [exists |-> TRUE,
                                files |-> IF wrote THEN @.files \cup {"cloned"}
                                          ELSE @.files]]
  /\ UNCHANGED tar

\* cloneWithTar returns or throws
CloneTarReturn ==
  /\ cl.pc = "inTar"
  /\ run.pc \in {"done", "failed"}
  /\ cl' = IF run.pc = "done" THEN [cl EXCEPT !.pc = "directives"]
           ELSE [cl EXCEPT !.pc = "failed", !.error = run.error]
  /\ UNCHANGED <<cacheVars, tar>>

\* what the git commands of cloneWithGit can do: git is not installed, the
\* command fails, the checkout has no file, the checkout has files
GitOutcomes == {"noGit", "fails", "empty", "ok"}

\* this.subDirectory as cloneWithGit meets it: not set, naming a path the
\* checkout has, naming a path the checkout does not have
GitSubDirs == {"none", "present", "missing"}

\* fs.mkdir(cloneRepoDestination): <dest>/.tiged when a sub-directory is asked
mkdirCloneRepoDestination(dest, sub) ==
  [exists |-> TRUE,
   files |-> IF sub = "none" THEN dest.files ELSE dest.files \cup {".tiged"}]

\* tiged.ts 988-1086: git fetch of the ref, or git clone for HEAD, into the
\* destination or into <dest>/.tiged; then the sub-directory is moved out of
\* .tiged and .tiged removed (lines 1038-1071)
CloneWithGit(ref, outcome, sub) ==
  /\ cl.pc = "git"
  /\ LET op == IF ref # "HEAD" THEN "gitFetch" ELSE "gitClone"
         made == mkdirCloneRepoDestination(cl.dest, sub)
     IN cl' =
          CASE outcome = "noGit" ->
                 [cl EXCEPT !.pc = "failed", !.error = "MISSING_GIT"]
            [] outcome = "fails" ->
                 [cl EXCEPT !.pc = "failed", !.error = "GIT_FAILED",
                            !.net = {op}, !.dest = made]
            [] outcome \in {"empty", "ok"} /\ sub = "missing" ->
                 [cl EXCEPT !.pc = "failed", !.error = "NO_FILES",
                            !.net = {op}, !.dest = made]
            [] outcome = "empty" /\ sub # "missing" ->
                 [cl EXCEPT !.pc = "failed", !.error = "NO_FILES",
                            !.net = {op},
                            !.dest = [exists |-> TRUE, files |-> @.files]]
            [] OTHER ->
                 [cl EXCEPT !.pc = "directives", !.net = {op},
                            !.dest = [exists |-> TRUE,
                                      files |-> @.files \cup {"cloned"}]]
  /\ UNCHANGED <<cacheVars, tar>>

\* tiged.ts 536-559: no degit.json, return; else run the directives (which
\* add or remove cloned files) and remove the repository cache directory
CloneDirectives(has) ==
  /\ cl.pc = "directives"
  /\ cl' = [cl EXCEPT !.pc = "done", !.hasDirectives = has]
  /\ IF has
       THEN /\ mapJson' = [exists |-> FALSE, content |-> EmptyFn]
            /\ accessJson' = [exists |-> FALSE, content |-> EmptyFn]
            /\ tarballs' = [h \in Hashes |-> "none"]
       ELSE UNCHANGED <<mapJson, accessJson, tarballs>>
  /\ UNCHANGED <<clock, run, pre, tar>>

NextClone ==
  \/ \E mode \in Modes, site \in Sites, force \in BOOLEAN, offline \in BOOLEAN,
        disable \in BOOLEAN, dest \in DestStates :
       CloneBegin(mode, site, force, offline, disable, dest)
  \/ \E ref \in Refs : CloneTarStart(ref)
  \/ CloneTarStep(ResolveOffline)
  \/ \E lsFails \in BOOLEAN, refs \in Listings, old \in MaybeHash \cup {"throw"} :
       CloneTarStep(ResolveOnline(lsFails, refs, old))
  \/ \E raw \in RawListings : CloneTarStep(ResolveOnlineBadRow(raw))
  \/ CloneTarStep(AcquireOffline)
  \/ \E dl \in DownloadOutcomes : CloneTarStep(AcquireOnline(dl))
  \/ CloneTarStep(UpdateAccess)
  \/ CloneTarStep(EvictOld)
  \/ CloneTarStep(WriteMap)
  \/ \E outcome \in {"ok", "empty", "BAD_TAR_PATH", "GUNZIP"}, wrote \in BOOLEAN :
       CloneTarExtract(outcome, wrote)
  \/ CloneTarStep(Cleanup)
  \/ CloneTarReturn
  \/ \E ref \in Refs, outcome \in GitOutcomes, sub \in GitSubDirs :
       CloneWithGit(ref, outcome, sub)
  \/ \E has \in BOOLEAN : CloneDirectives(has)

SpecClone == InitClone /\ [][NextClone]_vars

-----------------------------------------------------------------------------
(* Properties.                                                             *)

\* the invocation has finished, successfully or not
Terminal == run.pc \in {"done", "failed"}

\* the tarball step (tiged.ts 863-948) of the invocation has been executed
PastAcquire ==
  \/ run.pc \in {"updateAccess", "evict", "writeMap", "extract", "cleanup", "done"}
  \/ run.pc = "failed" /\ run.failedAt \in {"acquire", "extract"}

\* p lies strictly below root: root's segments followed by at least one
\* more, none of them empty, "." or ".."
StrictlyInside(root, p) ==
  LET r == split(root)
      q == split(p)
  IN /\ Len(q) > Len(r)
     /\ SubSeq(q, 1, Len(r)) = r
     /\ \A k \in (Len(r) + 1)..Len(q) : q[k] \notin {<<>>, Dot, DotDot}

\* C1: every directory created and every file written by untarToDir has an
\* absolute path strictly inside the resolved destination root, never the
\* root itself and never a path outside it.
C1_WritesStayInsideRoot ==
  tar.pc # "off" =>
    \A p \in tar.files \cup tar.dirs : StrictlyInside(DestResolved, p)

C1_Witness ==
  /\ tar.pc = "done"
  /\ tar.files # {}
  /\ tar.dirs # {}

\* C2: an offline cloneWithTar invokes no network operation (ref listing,
\* historical-commit fetch, tarball download), whatever the ref, map.json
\* and the tarballs present.
C2_OfflineNoNetwork == run.offlineMode => run.net = {}

C2_Witness ==
  /\ run.offlineMode
  /\ isFullCommitHash(run.ref)
  /\ run.pc = "failed"
  /\ run.error = "CACHE_MISS"

\* C3: when updateCache replaces the ref's cached hash oldHash by another
\* hash, oldHash.tar.gz is left as it was if another ref of map.json maps to
\* oldHash and is gone if none does.
C3_EvictsIffUnreferenced ==
  run.pc = "writeMap" =>
    LET oldHash == Lookup(run.cached, run.ref)
        others == {k \in DOMAIN run.cached :
                     k # run.ref /\ run.cached[k] = oldHash}
    IN oldHash # "" =>
         /\ others # {} => tarballs[oldHash] = pre.tar[oldHash]
         /\ others = {} => tarballs[oldHash] = "none"

C3_Witness ==
  /\ run.pc = "writeMap"
  /\ Lookup(run.cached, run.ref) \in Hashes
  /\ \E k \in DOMAIN run.cached :
       k # run.ref /\ run.cached[k] = run.cached[run.ref]
  /\ tarballs[run.cached[run.ref]] = "full"

\* C4: between clone operations, every hash that map.json maps a ref to has
\* its tarball file present.
C4_MappedTarballsPresent ==
  run.pc \in {"idle", "done", "failed"} =>
    \A ref \in DOMAIN mapJson.content :
      tarballs[mapJson.content[ref]] # "none"

\* an entry name that has a ".." segment, is absolute, or resolves outside
\* the destination root
HostileName(name) ==
  LET segs == split(name)
      resolved == pathResolve(DestResolved, NonEmpty(segs))
  IN \/ \E k \in 1..Len(segs) : segs[k] = DotDot
     \/ isAbsolute(name)
     \/ ~(resolved = DestResolved \/ StrictlyInside(DestResolved, resolved))

UnsafeOut(out) ==
  LET segs == split(out)
  IN \/ \E k \in 1..Len(segs) : segs[k] = DotDot
     \/ isAbsolute(out)
     \/ ~StrictlyInside(DestResolved, pathResolve(DestResolved, NonEmpty(segs)))

OfflineHash ==
  IF isFullCommitHash(run.ref) THEN run.ref
  ELSE Lookup(pre.map.content, run.ref)

\* C6: offline with caching enabled, a ref that is not a full hash and has
\* no map.json entry fails with MISSING_REF, a known hash whose tarball is
\* absent fails with CACHE_MISS, and in both cases nothing is downloaded and
\* nothing is extracted.
C6_OfflineFailures ==
  (run.offlineMode /\ ~run.disableCache /\ Terminal) =>
    /\ (~isFullCommitHash(run.ref) /\ run.ref \notin DOMAIN pre.map.content)
         => run.error = "MISSING_REF"
    /\ (OfflineHash # "" /\ pre.tar[OfflineHash] = "none")
         => run.error = "CACHE_MISS"
    /\ run.error \in {"MISSING_REF", "CACHE_MISS"}
         => /\ run.net = {}
            /\ tarballs = pre.tar
            /\ run.extractedFrom = ""
            /\ ~run.wrote

C6_Witness ==
  /\ run.offlineMode
  /\ ~run.disableCache
  /\ run.ref \in DOMAIN pre.map.content
  /\ run.error = "CACHE_MISS"

\* C7 as stated: offline, a full-hash ref whose tarball exists always
\* succeeds and extracts that tarball.
C7_Original ==
  (run.offlineMode /\ isFullCommitHash(run.ref) /\ pre.tar[run.ref] # "none"
     /\ Terminal)
    => run.pc = "done" /\ run.extractedFrom = run.ref

\* C7 amended: offline with caching enabled, a full-hash ref whose tarball
\* exists is used as the hash whatever map.json holds, that tarball is
\* handed to extraction, and the invocation succeeds exactly when the
\* extraction does (it fails only at the extraction step).
C7_OfflineFullHashShortcut ==
  (run.offlineMode /\ ~run.disableCache /\ isFullCommitHash(run.ref)
     /\ pre.tar[run.ref] # "none" /\ Terminal)
    => /\ run.hash = run.ref
       /\ run.extractedFrom = run.ref
       /\ run.pc = "done" <=> run.untar = "ok"
       /\ run.pc = "failed" => run.failedAt = "extract"

C7_Witness ==
  /\ run.offlineMode
  /\ ~run.disableCache
  /\ isFullCommitHash(run.ref)
  /\ ~pre.map.exists
  /\ run.pc = "done"
  /\ run.extractedFrom = run.ref

C9_DisabledCacheLeavesNoTrace ==
  run.disableCache =>
    /\ mapJson = pre.map
    /\ accessJson = pre.access
    /\ run.pc = "done" => tarballs[run.hash] = "none"

C9_Witness ==
  /\ run.disableCache
  /\ run.pc = "done"
  /\ pre.map.exists
  /\ pre.tar[run.hash] = "none"

\* C10: online with caching enabled, an existing <hash>.tar.gz is reused
\* without any download attempt, and a download is attempted only when the
\* file is absent.
C10_ReuseElseDownload ==
  (~run.offlineMode /\ ~run.disableCache /\ PastAcquire) =>
    /\ pre.tar[run.hash] # "none" => (run.reused /\ "download" \notin run.net)
    /\ pre.tar[run.hash] = "none" => (~run.reused /\ "download" \in run.net)

C10_Witness ==
  /\ ~run.offlineMode
  /\ ~run.disableCache
  /\ run.reused
  /\ run.pc = "done"

\* the clone in progress used cloneWithTar, online, with caching enabled
TarOnlineCached ==
  /\ cloneMethod(cl.mode, cl.site) = "tar"
  /\ ~cl.offlineMode
  /\ ~cl.disableCache

\* C11: after clone() has completed successfully in tar mode, online, with
\* caching enabled, map.json maps the requested ref to the resolved hash,
\* access.json has an entry for the ref, and <hash>.tar.gz is present.
C11_CacheHoldsClonedRef ==
  (cl.pc = "done" /\ TarOnlineCached) =>
    /\ mapJson.exists
    /\ Lookup(mapJson.content, run.ref) = run.hash
    /\ accessJson.exists
    /\ run.ref \in DOMAIN accessJson.content
    /\ tarballs[run.hash] # "none"

\* C12: an offline cloneWithTar consults the cache read-only: it writes
\* neither map.json nor access.json and deletes no tarball.
C12_OfflineReadOnly ==
  run.offlineMode =>
    /\ mapJson = pre.map
    /\ accessJson = pre.access
    /\ \A h \in Hashes : pre.tar[h] # "none" => tarballs[h] # "none"

\* the extraction pass has started
Extracting == tar.pc \in {"extract", "done", "failed", "returned"}

\* block k is a PAX or long-name block
IsMeta(k) == tar.archive[k].typeChar \in {"g", "x", "L"}

\* the entries of the archive
RealIdx == {k \in 1..Len(tar.archive) : ~IsMeta(k)}

\* the last entry before block k, 0 if none
PrevReal(k) ==
  LET before == {j \in RealIdx : j < k}
  IN IF before = {} THEN 0 ELSE CHOOSE j \in before : \A m \in before : m <= j

\* the last block of type c between entry k and the entry before it, 0 if none
LastOf(k, c) ==
  LET cand == {j \in (PrevReal(k) + 1)..(k - 1) : tar.archive[j].typeChar = c}
  IN IF cand = {} THEN 0 ELSE CHOOSE j \in cand : \A m \in cand : m <= j

\* the effective name of entry k as the specification defines it: the PAX
\* path, else the long name, else the header name with its ustar prefix
SpecName(k) ==
  LET x == LastOf(k, "x")
      l == LastOf(k, "L")
      b == tar.archive[k]
  IN IF x # 0 /\ tar.archive[x].data # <<>> THEN tar.archive[x].data
     ELSE IF l # 0 /\ tar.archive[l].data # <<>> THEN tar.archive[l].data
     ELSE IF b.ustar /\ b.prefix # <<>> THEN b.prefix \o <<"/">> \o b.name
     ELSE b.name

\* the type of entry k
TypeOf(k) ==
  LET c == tar.archive[k].typeChar
  IN IF c = "5" THEN "directory"
     ELSE IF c \in {"0", "NUL"} THEN "file" ELSE "other"

\* the root-stripped path of entry k
Rel(k) ==
  StripTrailingSlashes(splitRootPrefix(normalizeTarPath(SpecName(k)),
                                       tar.scan.rootPrefix))

\* the requested subPath, relative to the repository root: cloneWithTar
\* hands untarToDir "<repo>-<hash>/<subPath>" (tiged.ts 844-846)
SubRel ==
  IF tar.subdirNorm = <<>> THEN <<>>
  ELSE splitRootPrefix(tar.subdirNorm, tar.scan.rootPrefix)

\* the absolute path of rel below the destination root
Under(rel) == DestResolved \o <<"/">> \o rel

\* C13: when the requested subPath (relative to the repository root: the
\* subdir argument with the root prefix stripped) equals the root-stripped
\* path of a file entry, untarToDir writes only entries with that exact path,
\* as their base name directly under the destination root, and no other
\* entry.
C13_SingleFileTarget ==
  (Extracting /\ SubRel # <<>>
     /\ \E k \in RealIdx : TypeOf(k) = "file" /\ Rel(k) = SubRel)
    => /\ \A j \in tar.writtenIdx : Rel(j) = SubRel
       /\ tar.files \cup tar.dirs \subseteq {Under(basename(SubRel))}
       /\ \A k \in RealIdx :
            (k < tar.i /\ TypeOf(k) # "other" /\ Rel(k) = SubRel
               /\ basename(SubRel) # Dot)
              => k \in tar.writtenIdx

C13_Witness ==
  /\ tar.pc = "done"
  /\ Len(SubRel) = 3
  /\ tar.files = {Under(basename(SubRel))}
  /\ \E k \in RealIdx : k \notin tar.writtenIdx /\ Rel(k) # <<>>

\* the entries the extraction loop has gone past
Processed == {k \in RealIdx : k < tar.i}

\* where the written entries went: written file entries account for the
\* files, written directory entries are among the directories, and nothing
\* else is there; Out(k) is the output-relative path expected of entry k
PlacedAt(Out(_)) ==
  /\ \A k \in tar.writtenIdx :
       /\ TypeOf(k) = "file" => Under(Out(k)) \in tar.files
       /\ TypeOf(k) = "directory" => Under(Out(k)) \in tar.dirs
       /\ TypeOf(k) # "other"
  /\ \A f \in tar.files :
       \E k \in tar.writtenIdx : TypeOf(k) = "file" /\ f = Under(Out(k))
  /\ \A d \in tar.dirs :
       \E k \in tar.writtenIdx : startsWith(Under(Out(k)), d)

\* the suffix of the root-stripped path of entry k after "subPath/"
SuffixOf(k, sub) == slice(Rel(k), Len(sub) + 1)

SuffixOfSubRel(k) == SuffixOf(k, SubRel)

\* C14: when the requested subPath (relative to the repository root: the
\* subdir argument with the root prefix stripped) names no file entry, a file
\* or directory entry is written if and only if its root-stripped path starts
\* with subPath + "/", and it is written at the suffix after "subPath/"; the
\* subPath directory entry itself and entries that share subPath only as a
\* string prefix are not written.
C14_DirectoryTarget ==
  (Extracting /\ SubRel # <<>>
     /\ ~\E k \in RealIdx : TypeOf(k) = "file" /\ Rel(k) = SubRel)
    => /\ \A k \in Processed :
            TypeOf(k) # "other" =>
              (k \in tar.writtenIdx <=> startsWith(Rel(k), SubRel \o <<"/">>))
       /\ PlacedAt(SuffixOfSubRel)

C14_Witness ==
  /\ tar.pc = "done"
  /\ SubRel # <<>>
  /\ tar.files # {}
  /\ \E k \in RealIdx :
       /\ k \notin tar.writtenIdx
       /\ TypeOf(k) = "file"
       /\ startsWith(Rel(k), SubRel)
       /\ Rel(k) # SubRel

\* a path made of ordinary segments (none empty, "." or ".."), with or
\* without a trailing slash
WellFormed(name) ==
  LET segs == split(StripTrailingSlashes(name))
  IN /\ name # <<>>
     /\ "\\" \notin {name[n] : n \in 1..Len(name)}
     /\ Len(name) < 2 \/ SubSeq(name, Len(name) - 1, Len(name)) # <<"/", "/">>
     /\ \A n \in 1..Len(segs) : segs[n] \notin {<<>>, Dot, DotDot}

\* the top-level folder of the first entry
TopFolder ==
  IF RealIdx = {} THEN <<>>
  ELSE split(SpecName(CHOOSE k \in RealIdx : \A j \in RealIdx : k <= j))[1]

\* every entry of the archive is prefixed with the one top-level folder
AllPrefixed ==
  /\ RealIdx # {}
  /\ TopFolder # PaxGlobalHeader
  /\ \A k \in RealIdx :
       /\ WellFormed(SpecName(k))
       /\ startsWith(SpecName(k), TopFolder \o <<"/">>)

\* the path of entry k with the top-level folder removed
Inner(k) == StripTrailingSlashes(slice(SpecName(k), Len(TopFolder) + 1))

\* C15: extracting with no subPath an archive whose every entry is prefixed
\* with one top-level folder writes every file and directory entry at its
\* path with that prefix removed, and nothing for the prefix entry itself.
C15_RootPrefixStripped ==
  (Extracting /\ tar.subdir = <<>> /\ AllPrefixed)
    => /\ tar.pc # "failed"
       /\ \A k \in Processed :
            TypeOf(k) # "other" => (k \in tar.writtenIdx <=> Inner(k) # <<>>)
       /\ PlacedAt(Inner)

C15_Witness ==
  /\ tar.pc = "done"
  /\ tar.subdir = <<>>
  /\ AllPrefixed
  /\ Inner(1) = <<>>
  /\ tar.writtenIdx = {2, 3}
  /\ tar.files # {}
  /\ Cardinality(tar.dirs) >= 2

\* no entry of the archive is at or below the requested subPath
NoMatch ==
  \A k \in RealIdx :
    Rel(k) # SubRel /\ ~startsWith(Rel(k), SubRel \o <<"/">>)

\* C16: if no archive entry matches the requested subPath, untarToDir
\* returns an empty list and the clone fails with NO_FILES.
C16_NoMatchIsNoFiles ==
  (SubRel # <<>> /\ NoMatch) =>
    /\ tar.pc \in {"done", "returned"} =>
         tar.extractedFiles = <<>> /\ tar.files = {} /\ tar.dirs = {}
    /\ tar.pc = "returned" => tar.thrown = "NO_FILES"
    /\ tar.pc # "failed"

C16_Witness ==
  /\ tar.pc = "returned"
  /\ tar.thrown = "NO_FILES"
  /\ SubRel # <<>>
  /\ NoMatch
  /\ Len(tar.archive) = 3
  /\ \E k \in RealIdx : TypeOf(k) = "file" /\ Rel(k) # <<>>

\* the classification pass rerun on the entries under their SpecName
RECURSIVE ScanSpec(_, _)
ScanSpec(k, st) ==
  IF k > Len(tar.archive) THEN st
  ELSE IF IsMeta(k) THEN ScanSpec(k + 1, st)
  ELSE ScanSpec(k + 1, ScanEntry(st, Entry(SpecName(k), TypeOf(k)),
                                 tar.subdirNorm))

\* the block the extraction loop handled last, 0 before the first
LastHandled == IF tar.pc = "failed" THEN tar.i ELSE tar.i - 1

\* C17: the effective name of an entry is the pending PAX x path, else the
\* pending GNU long name, else the header name with its ustar prefix, and
\* that one name serves root-prefix detection, subPath matching and the
\* output path.
C17_EffectiveNamePrecedence ==
  Extracting =>
    /\ tar.scan = ScanSpec(1, ScanStart(tar.subdirNorm))
    /\ LastHandled \in RealIdx =>
         /\ tar.name = SpecName(LastHandled)
         /\ tar.out = outRelPosix(Entry(SpecName(LastHandled),
                                        TypeOf(LastHandled)),
                                  tar.scan, tar.subdirNorm)
         /\ tar.outPath # <<>> => tar.outPath = Under(tar.out)

C17_Witness ==
  /\ tar.pc = "done"
  /\ tar.scan.rootPrefix = <<"p">>
  /\ tar.scan.isSubDirFile
  /\ tar.files = {Under(<<"p">>)}
  /\ \E k \in tar.writtenIdx :
       /\ tar.archive[k].ustar /\ tar.archive[k].prefix # <<>>
       /\ LastOf(k, "x") # 0 /\ tar.archive[LastOf(k, "x")].data # <<>>
       /\ LastOf(k, "L") # 0 /\ tar.archive[LastOf(k, "L")].data # <<>>

\* the data of the last block of type c since the entry before block k
PendingAt(k, c) ==
  IF LastOf(k, c) = 0 THEN <<>> ELSE tar.archive[LastOf(k, c)].data

\* the archive without its global PAX blocks
WithoutGlobal == SelectSeq(tar.archive, LAMBDA b : b.typeChar # "g")

\* C36: a PAX x path or a GNU long name overrides the name of the next
\* entry only, whatever the type of that entry: the pending override is that
\* of the last x and the last L block since the entry before, an entry
\* without such a block in front of it keeps its header name, and a global
\* g block neither changes a name nor clears what is pending.
C36_OverrideConsumedOnce ==
  Extracting =>
    /\ tar.scan = scanTarGz(WithoutGlobal, tar.subdirNorm)
    /\ tar.pc = "extract" =>
         /\ tar.pendingPax = PendingAt(tar.i, "x")
         /\ tar.pendingLongName = PendingAt(tar.i, "L")
    /\ LastHandled \in RealIdx =>
         /\ tar.pendingPax = <<>> /\ tar.pendingLongName = <<>>
         /\ tar.name = effectiveName(fullName(tar.archive[LastHandled]),
                                     PendingAt(LastHandled, "L"),
                                     PendingAt(LastHandled, "x"))
         /\ (LastOf(LastHandled, "x") = 0 /\ LastOf(LastHandled, "L") = 0) =>
              tar.name = fullName(tar.archive[LastHandled])

C36_Witness ==
  /\ tar.pc = "done"
  /\ Len(tar.archive) = 4
  /\ tar.archive[1].typeChar = "x" /\ tar.archive[1].data # <<>>
  /\ tar.archive[2].typeChar = "g"
  /\ tar.archive[3].typeChar = "2"
  /\ tar.name = <<"h", "/", "h">>
  /\ tar.scan.rootPrefix = <<"h">>
  /\ tar.files = {Under(<<"h">>)}

\* the first path segment of the normalized name of entry k
FirstSegment(k) == split(normalizeTarPath(SpecName(k)))[1]

\* the entries a root prefix can be taken from
Qualifying ==
  {k \in RealIdx : /\ TypeOf(k) \in {"file", "directory"}
                   /\ FirstSegment(k) \notin {<<>>, Dot, PaxGlobalHeader}}

\* the root prefix of the archive as the specification defines it
RootSpec ==
  IF Qualifying = {} THEN <<>>
  ELSE FirstSegment(CHOOSE k \in Qualifying : \A j \in Qualifying : k <= j)

\* the root prefix the scan loop holds after its first n blocks
RootAfter(n) == scanTarGz(SubSeq(tar.archive, 1, n), tar.subdirNorm).rootPrefix

\* C38: rootPrefix is the first path segment of the first file or directory
\* entry whose normalized name starts with a segment that is not empty, not
\* "." and not the PAX global-header sentinel; once set it stays as it is for
\* the rest of the scan, and the extraction pass strips that value from every
\* entry.
C38_RootPrefixFirstQualifying ==
  Extracting =>
    /\ tar.scan.rootPrefix = RootSpec
    /\ (tar.pc = "extract" /\ tar.i = 1) =>
         \A n \in 1..Len(tar.archive) :
           RootAfter(n - 1) # <<>> => RootAfter(n) = RootAfter(n - 1)
    /\ LastHandled \in RealIdx =>
         tar.out = outRelPosix(Entry(tar.name, TypeOf(LastHandled)),
                               [tar.scan EXCEPT !.rootPrefix = RootSpec],
                               tar.subdirNorm)

C38_Witness ==
  /\ tar.pc = "done"
  /\ Len(tar.archive) = 2
  /\ SpecName(1) = PaxGlobalHeader /\ TypeOf(1) = "file"
  /\ tar.scan.rootPrefix = <<"h">>
  /\ RootAfter(1) = <<>>
  /\ tar.files = {Under(PaxGlobalHeader), Under(<<"h">>)}

\* a clone() invocation has been made
Cloning == cl.pc \notin {"off", "idle"}

\* C18: if the destination directory exists and is non-empty and force is
\* not set, clone() fails with DEST_NOT_EMPTY before any ref resolution,
\* download, cache write or extraction, and the destination is unchanged.
C18_NonEmptyDestFails ==
  (Cloning /\ cl.destPre.exists /\ cl.destPre.files # {} /\ ~cl.force) =>
    /\ cl.pc = "failed"
    /\ cl.error = "DEST_NOT_EMPTY"
    /\ run = NoRun
    /\ cl.net = {}
    /\ mapJson = pre.map /\ accessJson = pre.access /\ tarballs = pre.tar
    /\ cl.dest = cl.destPre

C18_Witness ==
  /\ cl.pc = "failed"
  /\ cl.error = "DEST_NOT_EMPTY"
  /\ mapJson.exists
  /\ cl.dest.files = {"prior"}

C20_OfflineNoNetworkAnyMode ==
  (Cloning /\ cl.offlineMode) => cl.net = {} /\ run.net = {}

\* C25: the temporary .tiged directory that cloneWithGit creates inside the
\* destination for sub-directory extraction is removed on every exit path,
\* success or failure, before the operation returns or rethrows.
C25_TempDirRemoved ==
  cl.pc \in {"directives", "done", "failed"} => ".tiged" \notin cl.dest.files

WritesMap == mapJson' # mapJson

WritesIndex == mapJson' # mapJson \/ accessJson' # accessJson

StartsExtraction == run.extractedFrom = "" /\ run'.extractedFrom # ""

Removes(h) == tarballs[h] # "none" /\ tarballs'[h] = "none"

\* C30: within one cloneWithTar run the steps are strictly ordered: the
\* hash is resolved first; map.json is made to map the ref to the hash only
\* after <hash>.tar.gz has been found on disk or its download has completed;
\* the index update happens before the extraction starts; with caching
\* disabled the tarball is removed only after the extraction has succeeded.
C30_StepOrder ==
  [][/\ (WritesIndex \/ tarballs' # tarballs \/ StartsExtraction
           \/ "download" \in run'.net \/ run'.reused) =>
          run.hash # ""
     /\ WritesMap =>
          /\ Lookup(mapJson'.content, run.ref) = run.hash
          /\ run.reused \/ "download" \in run.net
          /\ tarballs[run.hash] # "none"
          /\ "download" \in run.net => tarballs[run.hash] = "full"
          /\ run.extractedFrom = ""
     /\ (StartsExtraction /\ ~run.disableCache) =>
             /\ Lookup(tryRequire(mapJson), run.ref) = run.hash
             /\ Lookup(tryRequire(accessJson), run.ref) = clock
     /\ run.extractedFrom # "" => ~WritesIndex
     /\ \A h \in Hashes :
          (Removes(h) /\ run.disableCache) =>
             /\ h = run.hash
             /\ run.untar = "ok"
             /\ run.wrote
    ]_vars

\* a run that downloaded the tarball, then wrote the index, then extracted
C30_Witness ==
  /\ run.pc = "done"
  /\ ~run.disableCache
  /\ "download" \in run.net
  /\ mapJson # pre.map
  /\ Lookup(mapJson.content, run.ref) = run.hash
  /\ run.untar = "ok"

\* C31: if cloneWithTar fails with MISSING_REF, CACHE_MISS, COULD_NOT_FETCH
\* or COULD_NOT_DOWNLOAD, then map.json and access.json are unchanged, every
\* tarball that was in the cache before the run is still there with
\* unchanged content, and nothing has been extracted into the destination.
C31_FailureLeavesCacheIntact ==
  (run.pc = "failed" /\ run.error \in {"MISSING_REF", "CACHE_MISS",
                                       "COULD_NOT_FETCH", "COULD_NOT_DOWNLOAD"}) =>
    /\ mapJson = pre.map
    /\ accessJson = pre.access
    /\ \A h \in Hashes : pre.tar[h] # "none" => tarballs[h] = pre.tar[h]
    /\ run.extractedFrom = ""
    /\ ~run.wrote

\* updateCache has been entered with the hash that map.json already holds
\* for the ref
SameHashCached ==
  /\ ~run.disableCache
  /\ run.hash # ""
  /\ Lookup(tryRequire(pre.map), run.ref) = run.hash

\* C32: when updateCache is called with the hash already cached for the
\* ref, it updates only that ref's access-log timestamp: map.json is not
\* rewritten (the run goes from the access-log write straight to the
\* extraction) and no tarball is deleted.
C32_UnchangedHashOnlyStampsAccess ==
  /\ (SameHashCached /\ run.pc \in {"extract", "cleanup", "done"}) =>
       /\ mapJson = pre.map
       /\ \A h \in Hashes : pre.tar[h] # "none" => tarballs[h] = pre.tar[h]
       /\ accessJson.exists
       /\ accessJson.content = Assign(tryRequire(pre.access), run.ref, clock)
  /\ SameHashCached => run.pc \notin {"evict", "writeMap"}

C32_Witness ==
  /\ SameHashCached
  /\ run.pc = "extract"
  /\ pre.access.exists
  /\ \E k \in DOMAIN pre.access.content : k # run.ref
  /\ accessJson # pre.access

\* C35: a cache hit always refers to a completely downloaded tarball: a
\* download that fails partway leaves no file at <hash>.tar.gz, so no later
\* online run with caching enabled reuses an incomplete download.
C35_CacheHitIsComplete ==
  /\ \A h \in Hashes : tarballs[h] # "partial"
  /\ (run.reused /\ ~run.offlineMode /\ ~run.disableCache) =>
       tarballs[run.hash] = "full"

\* C24: when a line of the remote ref listing cannot be parsed, the clone
\* fails and the error surfaced to the caller has code BAD_REF and carries
\* the ref string of that line.
C24_BadRefSurfaced ==
  run.badRef # "" =>
    /\ run.pc = "failed"
    /\ run.error = "BAD_REF"
    /\ run.errorRef = run.badRef

-----------------------------------------------------------------------------
(* The Tiged constructor (tiged.ts 266-303) and extractRepositoryInfo      *)
(* (utils.ts 578-623).  A source specifier is a sequence of tokens: the    *)
(* delimiters "https://", "git@", ":", "/", "#", words without delimiter, *)
(* and dot-words (a dot followed by lower-case letters, as ".com").        *)

MaxSegs == 2

\* a dot and two or more lower-case letters: what /\.([a-z]{2,})$/ matches
DotWords == {".com", ".org", ".ht", ".co", ".sr", ".git"}

supportedKeys ==
  {<<"github">>, <<"gitlab">>, <<"bitbucket">>, <<"git", ".sr", ".ht">>,
   <<"huggingface">>, <<"codeberg">>}

supported(key) ==
  CASE key = <<"github">> -> <<".com">>
    [] key = <<"gitlab">> -> <<".com">>
    [] key = <<"bitbucket">> -> <<".com">>
    [] key = <<"git", ".sr", ".ht">> -> <<".ht">>
    [] key = <<"huggingface">> -> <<".co">>
    [] key = <<"codeberg">> -> <<".org">>
    [] OTHER -> <<>>

\* end of the longest run of tokens from k on that avoids the tokens of Stop
RunEnd(s, k, Stop) ==
  CHOOSE j \in (k - 1)..Len(s) :
    /\ \A i \in k..j : s[i] \notin Stop
    /\ j = Len(s) \/ s[j + 1] \in Stop

TokenAt(s, i) == IF i \in 1..Len(s) THEN s[i] ELSE "<end>"

\* (?:https:\/\/)?([^:/]+\.[^:/]+)\/
MatchDomainSlash(s) ==
  LET k == IF TokenAt(s, 1) = "https://" THEN 2 ELSE 1
      e == RunEnd(s, k, {":", "/", "https://"})
  IN IF /\ e >= k + 1
        /\ \E i \in (k + 1)..e : s[i] \in DotWords
        /\ TokenAt(s, e + 1) = "/"
     THEN <<[site |-> SubSeq(s, k, e), next |-> e + 2]>>
     ELSE <<>>

\* git@([^:/]+)[:/]
MatchGitAt(s) ==
  LET e == RunEnd(s, 2, {":", "/", "https://"})
  IN IF TokenAt(s, 1) = "git@" /\ e >= 2 /\ TokenAt(s, e + 1) \in {":", "/"}
     THEN <<[site |-> SubSeq(s, 2, e), next |-> e + 2]>>
     ELSE <<>>

\* ([^/]+): , the greedy choice first
RECURSIVE MatchHostColonFrom(_, _)
MatchHostColonFrom(s, p) ==
  IF p < 2 THEN <<>>
  ELSE (IF s[p] = ":" /\ \A i \in 1..(p - 1) : s[i] \notin {"/", "https://"}
        THEN <<[site |-> SubSeq(s, 1, p - 1), next |-> p + 1]>>
        ELSE <<>>) \o MatchHostColonFrom(s, p - 1)

MatchHostColon(s) == MatchHostColonFrom(s, Len(s))

\* the site alternatives in the order the expression tries them; the last
\* one is the specifier without a site
SiteMatches(s) ==
  MatchDomainSlash(s) \o MatchGitAt(s) \o MatchHostColon(s)
    \o <<[site |-> <<>>, next |-> 1]>>

\* ([^/\s]+)\/([^/\s#]+) from position k: where the user and the name end
UserEnd(s, k) == RunEnd(s, k, {"/", "https://"})

NameEnd(s, k) == RunEnd(s, UserEnd(s, k) + 2, {"/", "#", "https://"})

MatchesRest(s, k) ==
  /\ UserEnd(s, k) >= k
  /\ TokenAt(s, UserEnd(s, k) + 1) = "/"
  /\ NameEnd(s, k) >= UserEnd(s, k) + 2

\* ((?:\/[^/\s#]+)+) after position e: where the last such segment ends
RECURSIVE SegmentsEnd(_, _)
SegmentsEnd(s, e) ==
  LET r == RunEnd(s, e + 2, {"/", "#", "https://"})
  IN IF TokenAt(s, e + 1) = "/" /\ r >= e + 2
     THEN SegmentsEnd(s, r)
     ELSE e

\* .replace(/\.git$/, '')
StripDotGit(name) ==
  IF Len(name) > 0 /\ name[Len(name)] = ".git"
  THEN SubSeq(name, 1, Len(name) - 1)
  ELSE name

\* /\.([a-z]{2,})$/.exec(site)
topLevelDomain(site) ==
  IF Len(site) > 0 /\ site[Len(site)] \in DotWords
  THEN <<site[Len(site)]>>
  ELSE <<>>

BadSrc == [error |-> "BAD_SRC"]

\* the site of a specifier that has none
DefaultSite == <<"github", ".com">>

extractRepositoryInfo(src, subgroup, subDirectory) ==
  LET alts == SiteMatches(src)
      good == {i \in 1..Len(alts) : MatchesRest(src, alts[i].next)}
  IN IF good = {} THEN BadSrc
     ELSE
       LET m == alts[CHOOSE i \in good : \A j \in good : i <= j]
           k == m.next
           ue == UserEnd(src, k)
           ne == NameEnd(src, k)
           se == SegmentsEnd(src, ne)
           t == IF TokenAt(src, se + 1) = "/" THEN se + 1 ELSE se
           site == IF m.site = <<>> THEN DefaultSite ELSE m.site
           tld == topLevelDomain(site)
           siteName == IF tld # <<>> THEN SubSeq(site, 1, Len(site) - 1)
                       ELSE site
           user == SubSeq(src, k, ue)
           name == StripDotGit(SubSeq(src, ue + 2, ne))
           repoSubDirectory == SubSeq(src, ne + 1, se)
           ref == IF TokenAt(src, t + 1) = "#" /\ t + 2 <= Len(src)
                  THEN SubSeq(src, t + 2, Len(src))
                  ELSE <<"HEAD">>
           suffix == IF tld # <<>> THEN tld
                     ELSE IF supported(siteName) # <<>> THEN supported(siteName)
                     ELSE supported(site)
           domain == siteName \o suffix
       IN [error |-> "",
           site |-> siteName,
           user |-> user,
           name |-> name,
           ref |-> ref,
           url |-> <<"https://">> \o domain \o <<"/">> \o user \o <<"/">> \o name,
           ssh |-> <<"git@">> \o domain \o <<":">> \o user \o <<"/">> \o name,
           subDirectory |-> IF repoSubDirectory # <<>> THEN repoSubDirectory
                            ELSE subDirectory]

addLeadingSlashIfMissing(subDirectory) ==
  IF subDirectory = <<>> THEN <<>>
  ELSE IF subDirectory[1] = "/" THEN subDirectory
  ELSE <<"/">> \o subDirectory

\* the specifiers: a site part, user/name, sub-path segments, a ref
ShortHosts == supportedKeys

\* the domain of each provider in the full forms of the specifier
providerDomain(host) ==
  CASE host = <<"github">> -> <<"github", ".com">>
    [] host = <<"gitlab">> -> <<"gitlab", ".com">>
    [] host = <<"bitbucket">> -> <<"bitbucket", ".org">>
    [] host = <<"git", ".sr", ".ht">> -> <<"git", ".sr", ".ht">>
    [] host = <<"huggingface">> -> <<"huggingface", ".co">>
    [] host = <<"codeberg">> -> <<"codeberg", ".org">>

Domains == {providerDomain(h) : h \in ShortHosts}

SiteParts ==
  {<<>>}
    \cup {h \o <<":">> : h \in ShortHosts}
    \cup {<<"git@">> \o d \o <<":">> : d \in Domains}
    \cup {<<"https://">> \o d \o <<"/">> : d \in Domains}
    \cup {d \o <<"/">> : d \in Domains}

SegNames == {"sub", "dir"}

RECURSIVE SegPaths(_)
SegPaths(n) ==
  IF n = 0 THEN {<<>>}
  ELSE SegPaths(n - 1)
         \cup {p \o <<"/", g>> : p \in SegPaths(n - 1), g \in SegNames}

RepoParts ==
  {<<"user", "/", "repo">> \o g \o p \o sl \o r :
     g \in {<<>>, <<".git">>}, p \in SegPaths(MaxSegs),
     sl \in {<<>>, <<"/">>}, r \in {<<>>, <<"#", "dev">>}}

Malformed == {<<"user">>, <<"github", ":", "user">>, <<"/", "repo">>}

Specifiers == {sp \o rp : sp \in SiteParts, rp \in RepoParts} \cup Malformed

SubDirectoryOptions == {<<>>, <<"dir">>, <<"/", "sub">>}

NewTiged(src, subgroup, option) ==
  [pc |-> "new", src |-> src, subgroup |-> subgroup, option |-> option]

InitParse ==
  /\ InitCache
  /\ InitTarIdle
  /\ \E src \in Specifiers, subgroup \in BOOLEAN, option \in SubDirectoryOptions :
       cl = NewTiged(src, subgroup, option)

\* new Tiged(src, options)
Construct ==
  /\ cl.pc = "new"
  /\ LET subDirectory == addLeadingSlashIfMissing(cl.option)
         repo == extractRepositoryInfo(cl.src, cl.subgroup, subDirectory)
     IN cl' = IF repo.error # ""
              THEN [cl EXCEPT !.pc = "threw"] @@ [error |-> repo.error]
              ELSE [cl EXCEPT !.pc = "constructed"] @@
                   [error |-> "",
                    repo |-> repo,
                    subDirectory |-> IF ~cl.subgroup THEN repo.subDirectory
                                     ELSE subDirectory]
  /\ UNCHANGED <<cacheVars, tar>>

NextParse == Construct

SpecParse == InitParse /\ [][NextParse]_vars

-----------------------------------------------------------------------------
(* Properties of the constructor and of the specifier parser.              *)

Constructed == cl.pc = "constructed"

\* the sub-path the specifier itself names (the sixth group of the match)
InferredSubPath == extractRepositoryInfo(cl.src, cl.subgroup, <<>>).subDirectory

\* C21: when both a non-empty subDirectory option and a sub-path inferred
\* from the specifier are given, the subDirectory option overrides the
\* inferred sub-path: the sub-directory the clone extracts is the option.
C21_OptionOverridesInferred ==
  (Constructed /\ cl.option # <<>> /\ InferredSubPath # <<>>) =>
    cl.subDirectory = addLeadingSlashIfMissing(cl.option)

\* the token sequence part occurs in whole, contiguously
Contains(whole, part) ==
  \E i \in 1..(Len(whole) + 1) :
    /\ i + Len(part) - 1 <= Len(whole)
    /\ SubSeq(whole, i, i + Len(part) - 1) = part

\* C22: in subgroup mode the leading sub-path segments of the specifier are
\* folded into the repository name and URL (group/subgroup/repo addresses
\* the nested repository) and are not extracted as a sub-directory: the
\* sub-path is the explicit subDirectory option, or nothing.
C22_SubgroupFoldsSegments ==
  (Constructed /\ cl.subgroup /\ InferredSubPath # <<>>) =>
    /\ Contains(cl.repo.url, InferredSubPath)
    /\ Contains(cl.repo.name, SubSeq(InferredSubPath, 2, Len(InferredSubPath)))
    /\ cl.subDirectory = addLeadingSlashIfMissing(cl.option)

\* the accepted forms of a specifier for one provider and one user/repo
\* path: shorthand, git@, https:// and bare-domain, each with or without a
\* trailing .git
FormsOf(host) ==
  {sp \o <<"user", "/", "repo">> \o g :
     sp \in {host \o <<":">>,
             <<"git@">> \o providerDomain(host) \o <<":">>,
             <<"https://">> \o providerDomain(host) \o <<"/">>,
             providerDomain(host) \o <<"/">>},
     g \in {<<>>, <<".git">>}}

SameRepository(a, b) ==
  /\ a.site = b.site
  /\ a.user = b.user
  /\ a.name = b.name
  /\ a.url = b.url

\* C23: each provider has one canonical domain: every accepted form of a
\* specifier for the same provider, user and repository (shorthand, git@,
\* https://, with or without .git) parses to the same site, user, name and
\* url.
C23_FormsParseAlike ==
  Constructed =>
    \A host \in ShortHosts :
      cl.src \in FormsOf(host) =>
        \A other \in FormsOf(host) :
          SameRepository(cl.repo, extractRepositoryInfo(other, FALSE, <<>>))

-----------------------------------------------------------------------------
(* The tiged() implementation of src/src/index.ts: Tiged._cloneWithTar     *)
(* (lines 655-749) and its updateCache (1009-1051), on the same cache      *)
(* directory.  Its options are offlineMode, the deprecated cache and        *)
(* noCache.                                                                 *)

IndexStart(ref, offline, cacheOpt, noCache) ==
  /\ run.pc \in {"idle", "done", "failed"}
  /\ clock < MaxRuns
  /\ clock' = clock + 1
  /\ run' = [NoRun EXCEPT !.pc = "resolve", !.ref = ref,
                          !.offlineMode = offline, !.disableCache = noCache,
                          !.cached = tryRequire(mapJson)]
            @@ [cache |-> cacheOpt]
  /\ pre' = [map |-> mapJson, access |-> accessJson, tar |-> tarballs]
  /\ UNCHANGED <<mapJson, accessJson, tarballs>>

\* Tiged._getHashFromCache (index.ts 599-612)
getHashFromCache(ref, cached) == Lookup(cached, ref)

\* Tiged._getHash (index.ts 566-590): a failed listing is warned about and
\* yields no hash; _selectRef (622-645) is the selectRef of tiged.ts
indexGetHash(ref, lsFails, refs) ==
  LET h == FirstIdx({i \in 1..Len(refs) : refs[i].type = "HEAD"})
  IN IF lsFails THEN ""
     ELSE IF ref = "HEAD" THEN (IF h # 0 THEN refs[h].hash ELSE "")
     ELSE selectRef(refs, ref)

\* index.ts 658-672
IndexResolve(lsFails, refs) ==
  /\ run.pc = "resolve"
  /\ LET fromCache == run.offlineMode \/ run.cache
         hash == IF fromCache THEN getHashFromCache(run.ref, run.cached)
                 ELSE indexGetHash(run.ref, lsFails, refs)
         net == IF fromCache THEN {} ELSE {"lsRemote"}
     IN run' = IF hash = ""
                 THEN [Fail("MISSING_REF") EXCEPT !.net = net]
               ELSE [run EXCEPT !.pc = "acquire", !.hash = hash, !.net = net]
  /\ UNCHANGED <<mapJson, accessJson, tarballs, clock, pre>>

\* what fetch(url, file) can do: write the file; throw an Error (the file
\* not written, or written in part); reject with the status object of an
\* HTTP error, which is not an Error
FetchOutcomes == {"ok", "error", "errorPartial", "status"}

\* index.ts 682-723: the guard of the stat-or-download block
entersDownloadBlock(offlineMode, cacheOpt) == ~offlineMode \/ ~cacheOpt

\* index.ts 682-725: stat the tarball, download it when stat fails or with
\* noCache; then updateCache unless noCache
IndexAcquire(dl) ==
  /\ run.pc = "acquire"
  /\ LET after == IF run.disableCache THEN "extract" ELSE "updateCache"
         fetches == /\ entersDownloadBlock(run.offlineMode, run.cache)
                    /\ run.disableCache \/ tarballs[run.hash] = "none"
     IN IF ~fetches
          THEN /\ run' = [run EXCEPT !.pc = after,
                            !.reused = entersDownloadBlock(run.offlineMode,
                                                           run.cache)]
               /\ UNCHANGED tarballs
        ELSE /\ tarballs' =
                  [tarballs EXCEPT ![run.hash] =
                     CASE dl = "ok" -> "full"
                       [] dl = "errorPartial" -> "partial"
                       [] OTHER -> @]
             /\ run' =
                  IF dl \in {"error", "errorPartial"}
                    THEN [Fail("COULD_NOT_DOWNLOAD") EXCEPT
                            !.net = @ \cup {"download"}]
                  ELSE [run EXCEPT !.pc = after, !.net = @ \cup {"download"}]
  /\ UNCHANGED <<mapJson, accessJson, clock, pre>>

\* index.ts 1027-1034: is the tarball still in use?  The scan compares the
\* values of cached with the hash passed in, the new one
indexUsed(cached, hash) == \E key \in DOMAIN cached : cached[key] = hash

\* updateCache (index.ts 1009-1051)
IndexUpdateCache ==
  /\ run.pc = "updateCache"
  /\ accessJson' = [exists |-> TRUE,
                    content |-> Assign(tryRequire(accessJson), run.ref, clock)]
  /\ LET oldHash == Lookup(run.cached, run.ref)
         cached == Assign(run.cached, run.ref, run.hash)
     IN IF oldHash = run.hash
          THEN /\ run' = [run EXCEPT !.pc = "extract"]
               /\ UNCHANGED <<mapJson, tarballs>>
        ELSE /\ tarballs' =
                  IF oldHash # "" /\ ~indexUsed(run.cached, run.hash)
                    THEN [tarballs EXCEPT ![oldHash] = "none"]
                    ELSE tarballs
             /\ mapJson' = [exists |-> TRUE, content |-> cached]
             /\ run' = [run EXCEPT !.pc = "extract", !.cached = cached]
  /\ UNCHANGED <<clock, pre>>

\* what untar (index.ts 929-944) can do with the file: extract entries,
\* extract none, or throw (no file, or not a gzip archive)
IndexUntarOutcomes(state) ==
  IF state = "full" THEN {"ok", "empty"} ELSE {"TAR_ERROR"}

\* index.ts 735-748: untar, NO_FILES, rimraf of the file with noCache
IndexExtract(outcome) ==
  /\ run.pc = "extract"
  /\ outcome \in IndexUntarOutcomes(tarballs[run.hash])
  /\ LET r == [run EXCEPT !.extractedFrom = run.hash,
                          !.wrote = (outcome = "ok"), !.untar = outcome]
     IN run' = CASE outcome = "ok" -> [r EXCEPT !.pc = "done"]
                 [] outcome = "empty" ->
                      [r EXCEPT !.pc = "failed", !.error = "NO_FILES",
                                !.failedAt = "extract"]
                 [] OTHER ->
                      [r EXCEPT !.pc = "failed", !.error = outcome,
                                !.failedAt = "extract"]
  /\ tarballs' = IF outcome = "ok" /\ run.disableCache
                   THEN [tarballs EXCEPT ![run.hash] = "none"]
                   ELSE tarballs
  /\ UNCHANGED <<mapJson, accessJson, clock, pre>>

NextIndex ==
  \/ \E ref \in Refs, offline \in BOOLEAN, cacheOpt \in BOOLEAN,
        noCache \in BOOLEAN :
       IndexStart(ref, offline, cacheOpt, noCache) /\ UNCHANGED <<tar, cl>>
  \/ \E lsFails \in BOOLEAN, refs \in Listings :
       IndexResolve(lsFails, refs) /\ UNCHANGED <<tar, cl>>
  \/ \E dl \in FetchOutcomes : IndexAcquire(dl) /\ UNCHANGED <<tar, cl>>
  \/ IndexUpdateCache /\ UNCHANGED <<tar, cl>>
  \/ \E outcome \in {"ok", "empty", "TAR_ERROR"} :
       IndexExtract(outcome) /\ UNCHANGED <<tar, cl>>

SpecIndex == Init /\ [][NextIndex]_vars

\* C26: in the _cloneWithTar of src/src/index.ts, offline mode never calls
\* the download transport: with a cached ref -> hash mapping and the tarball
\* missing, it fails with CACHE_MISS and fetch is not invoked.
C26_IndexOfflineNeverDownloads ==
  run.offlineMode =>
    /\ "download" \notin run.net
    /\ (run.pc \notin {"resolve", "acquire"} /\ run.hash # ""
        /\ pre.tar[run.hash] = "none") => run.error = "CACHE_MISS"

\* C27: in the updateCache of src/src/index.ts, when the hash of a ref
\* changes from old to new, old.tar.gz is not deleted if another ref of
\* map.json still maps to old, and is deleted if no other ref maps to old.
C27_IndexEvictsUnreferencedOnly ==
  LET old == Lookup(pre.map.content, run.ref)
  IN (/\ run.pc \in {"extract", "done"}
      /\ ~run.disableCache
      /\ pre.map.exists
      /\ old # ""
      /\ old # run.hash) =>
       IF \E other \in DOMAIN pre.map.content :
            other # run.ref /\ pre.map.content[other] = old
       THEN tarballs[old] = pre.tar[old]
       ELSE tarballs[old] = "none"

-----------------------------------------------------------------------------
(* Tiged.getHash (tiged.ts 698-739) as a function of the requested ref, the *)
(* parsed listing and the answer of getOldHash.                            *)

\* what may be asked for: the refs of the cache machine and abbreviated hashes
Selectors == Refs \cup HashPrefixes

\* listings whose second branch is named like an abbreviated hash
PrefixNamedListings ==
  {(IF h = "" THEN <<>> ELSE <<RefRow("HEAD", h, h)>>)
     \o (IF m = "" THEN <<>> ELSE <<RefRow("branch", "main", m)>>)
     \o (IF d = "" THEN <<>> ELSE <<RefRow("branch", n, d)>>) :
     h \in MaybeHash, m \in MaybeHash, d \in MaybeHash, n \in HashPrefixes}

InitHash ==
  /\ mapJson = [exists |-> FALSE, content |-> EmptyFn]
  /\ accessJson = [exists |-> FALSE, content |-> EmptyFn]
  /\ tarballs = [h \in Hashes |-> "none"]
  /\ clock = 0
  /\ pre = [map |-> [exists |-> FALSE, content |-> EmptyFn],
            access |-> [exists |-> FALSE, content |-> EmptyFn],
            tar |-> [h \in Hashes |-> "none"]]
  /\ InitTarIdle
  /\ InitCloneIdle
  /\ \E ref \in Selectors, refs \in Listings \cup PrefixNamedListings,
        old \in MaybeHash \cup {"throw"} :
       run = [pc |-> "getHash", ref |-> ref, refs |-> refs, old |-> old]

\* await this.getHash(repo, cached)
GetHash ==
  /\ run.pc = "getHash"
  /\ run' = [run EXCEPT !.pc = "returned"]
              @@ [result |-> getHash(run.ref, run.refs, run.old)]
  /\ UNCHANGED <<mapJson, accessJson, tarballs, clock, pre, tar, cl>>

NextHash == GetHash

SpecHash == InitHash /\ [][NextHash]_vars

\* rows of the listing whose name is the ref / whose hash the ref abbreviates
NameRows == {i \in 1..Len(run.refs) : run.refs[i].name = run.ref}

PrefixRows == {i \in 1..Len(run.refs) : StartsWith(run.refs[i].hash, run.ref)}

HeadRows == {i \in 1..Len(run.refs) : run.refs[i].type = "HEAD"}

\* the historical-commit lookup (getOldHash) ran
LookedUpOld == "fetchOld" \in run.result.net

\* C28: online resolution has a fixed precedence: HEAD resolves to the hash
\* of the HEAD row; otherwise an exact ref-name match wins over any
\* hash-prefix match; a prefix match counts only for a ref of 8 characters
\* or more; a full 40-hex ref that matches nothing resolves to itself; the
\* historical-commit lookup runs only when all of these fail.
C28_ResolutionPrecedence ==
  run.pc = "returned" =>
    /\ run.ref = "HEAD" =>
         /\ HeadRows # {} => run.result.hash = run.refs[FirstIdx(HeadRows)].hash
         /\ ~LookedUpOld
    /\ (run.ref # "HEAD" /\ NameRows # {}) =>
         /\ run.result.hash = run.refs[FirstIdx(NameRows)].hash
         /\ ~LookedUpOld
    /\ (run.ref # "HEAD" /\ NameRows = {} /\ PrefixRows # {}) =>
         IF StrLen(run.ref) >= MinPrefixLen
         THEN /\ run.result.hash = run.refs[FirstIdx(PrefixRows)].hash
              /\ ~LookedUpOld
         ELSE LookedUpOld
    /\ (run.ref # "HEAD" /\ NameRows = {} /\ PrefixRows = {}
        /\ isFullCommitHash(run.ref)) =>
         /\ run.result.hash = run.ref
         /\ ~LookedUpOld
    /\ LookedUpOld =>
         /\ run.ref # "HEAD"
         /\ NameRows = {}
         /\ StrLen(run.ref) < MinPrefixLen \/ PrefixRows = {}
         /\ ~isFullCommitHash(run.ref)
         /\ run.old # "throw" => run.result.hash = run.old

\* a branch is named like the abbreviation of another row's hash, and the
\* branch wins
C28_Witness ==
  /\ run.pc = "returned"
  /\ run.ref = "p1"
  /\ NameRows # {}
  /\ PrefixRows # {}
  /\ FirstIdx(PrefixRows) < FirstIdx(NameRows)
  /\ run.refs[FirstIdx(NameRows)].hash = "h2"
  /\ run.result.hash = "h2"

-----------------------------------------------------------------------------
(* Concurrent clone operations: two tiged processes started in the same    *)
(* working directory, each running Tiged.clone / cloneWithTar once, their  *)
(* await points interleaved.  In SpecConc the cache variables are indexed  *)
(* by repository (the cache directory <base>/<site>/<user>/<name>, tiged.ts*)
(* 477-482), run is indexed by operation, and cl is the git state of the   *)
(* working directory (its FETCH_HEAD).  The network is reliable here.      *)

Ops == {1, 2}

Repos == {"r1", "r2"}

\* the commit each ref of each remote repository points at
Remote(repo, ref) ==
  IF repo = "r1" THEN (IF ref = "main" THEN "h1" ELSE "h2")
  ELSE (IF ref = "main" THEN "h2" ELSE "h1")

ConcIdle ==
  [pc |-> "idle", repo |-> "", ref |-> "", viaOld |-> FALSE,
   cached |-> EmptyFn, hash |-> "", error |-> ""]

NoFile == [exists |-> FALSE, content |-> EmptyFn]

\* a cache directory is empty, or holds an earlier clone of main
ConcCaches ==
  {[map |-> NoFile, access |-> NoFile, tar |-> [h \in Hashes |-> "none"]]}
    \cup {[map |-> [exists |-> TRUE, content |-> Assign(EmptyFn, "main", h)],
           access |-> [exists |-> TRUE, content |-> Assign(EmptyFn, "main", 0)],
           tar |-> [g \in Hashes |-> IF g = h THEN "full" ELSE "none"]] :
            h \in Hashes}

InitConc ==
  /\ \E c \in [Repos -> ConcCaches] :
       /\ mapJson = [r \in Repos |-> c[r].map]
       /\ accessJson = [r \in Repos |-> c[r].access]
       /\ tarballs = [r \in Repos |-> c[r].tar]
       /\ pre = c
  /\ clock = 0
  /\ run = [o \in Ops |-> ConcIdle]
  /\ InitTarIdle
  /\ cl = [fetchHead |-> ""]

\* tiged.ts 816-823: the operation starts and reads map.json; viaOld: the
\* remote does not list the ref, so that getHash falls back on getOldHash
ConcStart(o, repo, ref, viaOld) ==
  /\ run[o].pc = "idle"
  /\ run' = [run EXCEPT ![o] =
               [ConcIdle EXCEPT !.pc = IF viaOld THEN "gitFetch" ELSE "resolve",
                                !.repo = repo, !.ref = ref, !.viaOld = viaOld,
                                !.cached = tryRequire(mapJson[repo])]]
  /\ UNCHANGED <<mapJson, accessJson, tarballs, clock, pre, tar, cl>>

\* getHash on a listing that has the ref (tiged.ts 703-716)
ConcResolve(o) ==
  /\ run[o].pc = "resolve"
  /\ run' = [run EXCEPT ![o].pc = "acquire",
                        ![o].hash = Remote(run[o].repo, run[o].ref)]
  /\ UNCHANGED <<mapJson, accessJson, tarballs, clock, pre, tar, cl>>

\* getOldHash, utils.ts 799-801: `git init` and `git fetch --depth 1 <url>
\* <ref>` run in the working directory of the process and write FETCH_HEAD
ConcGitFetch(o) ==
  /\ run[o].pc = "gitFetch"
  /\ cl' = [cl EXCEPT !.fetchHead = Remote(run[o].repo, run[o].ref)]
  /\ run' = [run EXCEPT ![o].pc = "revList"]
  /\ UNCHANGED <<mapJson, accessJson, tarballs, clock, pre, tar>>

\* getOldHash, utils.ts 803-807: `git rev-list FETCH_HEAD`, first line
ConcRevList(o) ==
  /\ run[o].pc = "revList"
  /\ run' = [run EXCEPT ![o].pc = "acquire", ![o].hash = cl.fetchHead]
  /\ UNCHANGED <<mapJson, accessJson, tarballs, clock, pre, tar, cl>>

\* tiged.ts 893-931: stat <hash>.tar.gz, download it when it is not there
ConcAcquire(o) ==
  /\ run[o].pc = "acquire"
  /\ tarballs' = [tarballs EXCEPT ![run[o].repo][run[o].hash] =
                    IF @ = "none" THEN "full" ELSE @]
  /\ run' = [run EXCEPT ![o].pc = "updateAccess"]
  /\ UNCHANGED <<mapJson, accessJson, clock, pre, tar, cl>>

\* updateCache, utils.ts 713-725
ConcUpdateAccess(o) ==
  /\ run[o].pc = "updateAccess"
  /\ clock' = clock + 1
  /\ accessJson' = [accessJson EXCEPT ![run[o].repo] =
                      [exists |-> TRUE,
                       content |-> Assign(tryRequire(@), run[o].ref, clock + 1)]]
  /\ run' = [run EXCEPT ![o].pc =
               IF Lookup(run[o].cached, run[o].ref) = run[o].hash
               THEN "extract" ELSE "evict"]
  /\ UNCHANGED <<mapJson, tarballs, pre, tar, cl>>

\* updateCache, utils.ts 727-755
ConcEvict(o) ==
  /\ run[o].pc = "evict"
  /\ LET oldHash == Lookup(run[o].cached, run[o].ref)
     IN tarballs' =
          IF oldHash # "" /\ ~usedElsewhere(run[o].cached, run[o].ref, oldHash)
            THEN [tarballs EXCEPT ![run[o].repo][oldHash] = "none"]
            ELSE tarballs
  /\ run' = [run EXCEPT ![o].pc = "writeMap"]
  /\ UNCHANGED <<mapJson, accessJson, clock, pre, tar, cl>>

\* map.json write that merges the entry into what is on disk
ConcWriteMap_Merges(o) ==
  /\ run[o].pc = "writeMap"
  /\ LET cached == Assign(tryRequire(mapJson[run[o].repo]), run[o].ref,
                          run[o].hash)
     IN /\ mapJson' = [mapJson EXCEPT ![run[o].repo] =
                         [exists |-> TRUE, content |-> cached]]
        /\ run' = [run EXCEPT ![o].pc = "extract", ![o].cached = cached]
  /\ UNCHANGED <<accessJson, tarballs, clock, pre, tar, cl>>

\* updateCache, utils.ts 757-763: cached[ref] = hash, cached written out
ConcWriteMap(o) ==
  /\ run[o].pc = "writeMap"
  /\ LET cached == Assign(run[o].cached, run[o].ref, run[o].hash)
     IN /\ mapJson' = [mapJson EXCEPT ![run[o].repo] =
                         [exists |-> TRUE, content |-> cached]]
        /\ run' = [run EXCEPT ![o].pc = "extract", ![o].cached = cached]
  /\ UNCHANGED <<accessJson, tarballs, clock, pre, tar, cl>>

\* tiged.ts 961-975: untarToDir on <hash>.tar.gz
ConcExtract(o) ==
  /\ run[o].pc = "extract"
  /\ run' = IF tarballs[run[o].repo][run[o].hash] = "none"
              THEN [run EXCEPT ![o].pc = "failed", ![o].error = "ENOENT"]
              ELSE [run EXCEPT ![o].pc = "done"]
  /\ UNCHANGED <<mapJson, accessJson, tarballs, clock, pre, tar, cl>>

NextConc ==
  \E o \in Ops :
    \/ \E repo \in Repos, ref \in RefNames, viaOld \in BOOLEAN :
         ConcStart(o, repo, ref, viaOld)
    \/ ConcResolve(o)
    \/ ConcGitFetch(o)
    \/ ConcRevList(o)
    \/ ConcAcquire(o)
    \/ ConcUpdateAccess(o)
    \/ ConcEvict(o)
    \/ ConcWriteMap(o)
    \/ ConcExtract(o)

SpecConc == InitConc /\ [][NextConc]_vars

\* operation o has written its entry into map.json
WroteMap(o) ==
  /\ run[o].pc \in {"extract", "done", "failed"}
  /\ Lookup(pre[run[o].repo].map.content, run[o].ref) # run[o].hash

\* C33: clone operations on one repository are not synchronized: an
\* operation writes back the index it read when it started plus its own
\* entry, whatever map.json holds by then; so there is an interleaving of
\* two cached clones of different refs in which the entry written by one is
\* overwritten and lost by the other.
C33_UnsynchronizedIndexWrite ==
  [][\A o \in Ops :
       (run[o].pc = "writeMap" /\ run'[o].pc = "extract") =>
         mapJson'[run[o].repo].content =
           Assign(run[o].cached, run[o].ref, run[o].hash)]_vars

\* both operations are done on the same repository, for different refs;
\* both wrote map.json; the entry of operation 1 is not in map.json
C33_Witness ==
  /\ run[1].pc = "done" /\ run[2].pc = "done"
  /\ run[1].repo = run[2].repo
  /\ run[1].ref # run[2].ref
  /\ WroteMap(1) /\ WroteMap(2)
  /\ Lookup(mapJson[run[1].repo].content, run[1].ref) # run[1].hash

\* C34: concurrent clone operations on repositories with different
\* site/user/name share no mutable state: under every interleaving each
\* operation has the outcome and leaves the cache state of a run on its
\* own: the hash its ref points at, cached and mapped in its own directory.
C34_DisjointReposIndependent ==
  \A o \in Ops : \A p \in Ops \ {o} :
    (run[o].pc \in {"acquire", "updateAccess", "evict", "writeMap",
                    "extract", "done", "failed"}
     /\ (run[p].pc # "idle" => run[p].repo # run[o].repo)) =>
      /\ run[o].hash = Remote(run[o].repo, run[o].ref)
      /\ run[o].pc # "failed"
      /\ run[o].pc = "done" =>
           /\ Lookup(mapJson[run[o].repo].content, run[o].ref) = run[o].hash
           /\ tarballs[run[o].repo][run[o].hash] = "full"

-----------------------------------------------------------------------------
(* The header offsets of the two passes over the decompressed buffer       *)
(* (src/src/tar.ts): scanTarGz, then the loop of untarToDir.  The buffer   *)
(* is a sequence of 512-byte blocks; each block is all zero or carries the *)
(* value parseOctal reads from its size field.  tar holds the buffer, the  *)
(* pass, its offset and the offsets the extraction pass got a header at.   *)

MaxBlocks == 3

BlockSize == 512

\* tar.ts 31-36: Number.parseInt(s, 8) accepts a sign, so the value of the
\* size field may be negative; a field without octal digits reads as 0
SizeFields == {0 - 1024, 0 - 512, 0 - 1, 0, 1, 512}

ZeroBlock == [zero |-> TRUE, size |-> 0]

BufferBlocks == {ZeroBlock} \cup {[zero |-> FALSE, size |-> s] : s \in SizeFields}

Buffers ==
  UNION {[1..n -> BufferBlocks] : n \in 0..MaxBlocks}

\* Math.ceil(size / 512) on an integer size
CeilBlocks(size) == 0 - ((0 - size) \div BlockSize)

Max(a, b) == IF a >= b THEN a ELSE b

Min(a, b) == IF a <= b THEN a ELSE b

\* Uint8Array.prototype.subarray(begin, end) on a buffer of length len: the
\* resulting range; a negative index counts from the end of the buffer
subarray(len, begin, end) ==
  LET from == IF begin < 0 THEN Max(len + begin, 0) ELSE Min(begin, len)
      to == IF end < 0 THEN Max(len + end, 0) ELSE Min(end, len)
  IN [from |-> from, length |-> Max(to - from, 0)]

\* tar.ts 90-134: "null", a zero block, or a header; offsets are multiples
\* of 512, so a range of 512 bytes is one block of the buffer
parseHeaderAt(buf, offset) ==
  LET block == subarray(Len(buf) * BlockSize, offset, offset + BlockSize)
      b == buf[(block.from \div BlockSize) + 1]
  IN IF block.length < BlockSize THEN [kind |-> "null", nextOffset |-> offset]
     ELSE IF b.zero
       THEN [kind |-> "zero", nextOffset |-> offset + BlockSize]
     ELSE [kind |-> "header",
           nextOffset |-> offset + BlockSize + CeilBlocks(b.size) * BlockSize]

\* tar.ts 152 and 242: the condition of the for loops
LoopCondition(buf, offset) == offset + BlockSize <= Len(buf) * BlockSize

InitBlocks ==
  /\ InitCache
  /\ cl = [pc |-> "off"]
  /\ \E buf \in Buffers :
       tar = [pc |-> "scanTarGz", buf |-> buf, offset |-> 0, yielded |-> {}]

\* tar.ts 152-204: one iteration of the loop of scanTarGz
ScanIter ==
  /\ tar.pc = "scanTarGz"
  /\ LoopCondition(tar.buf, tar.offset)
  /\ parseHeaderAt(tar.buf, tar.offset).kind # "null"
  /\ tar' = [tar EXCEPT !.offset = parseHeaderAt(tar.buf, tar.offset).nextOffset]

\* tar.ts 152-154, 206, 229-242: the loop of scanTarGz ends, untarToDir
\* starts its own loop at offset 0
ScanExit ==
  /\ tar.pc = "scanTarGz"
  /\ \/ ~LoopCondition(tar.buf, tar.offset)
     \/ parseHeaderAt(tar.buf, tar.offset).kind = "null"
  /\ tar' = [tar EXCEPT !.pc = "untarToDir", !.offset = 0]

\* tar.ts 242-330: one iteration of the loop of untarToDir; a zero block is
\* stepped over, a header is handed on to the extraction
UntarIter ==
  /\ tar.pc = "untarToDir"
  /\ LoopCondition(tar.buf, tar.offset)
  /\ LET parsed == parseHeaderAt(tar.buf, tar.offset)
     IN /\ parsed.kind # "null"
        /\ tar' = [tar EXCEPT
                     !.offset = parsed.nextOffset,
                     !.yielded = IF parsed.kind = "header"
                                   THEN @ \cup {tar.offset} ELSE @]

\* tar.ts 315-320: the entry at the offset has an unsafe output path (the
\* names are not part of the buffers here: any header may be such an entry)
UntarThrow ==
  /\ tar.pc = "untarToDir"
  /\ LoopCondition(tar.buf, tar.offset)
  /\ parseHeaderAt(tar.buf, tar.offset).kind = "header"
  /\ tar' = [tar EXCEPT !.pc = "failed"]

\* tar.ts 242-244, 332: the loop of untarToDir ends
UntarExit ==
  /\ tar.pc = "untarToDir"
  /\ \/ ~LoopCondition(tar.buf, tar.offset)
     \/ parseHeaderAt(tar.buf, tar.offset).kind = "null"
  /\ tar' = [tar EXCEPT !.pc = "done"]

NextBlocks ==
  \/ ScanIter /\ UNCHANGED <<cacheVars, cl>>
  \/ ScanExit /\ UNCHANGED <<cacheVars, cl>>
  \/ UntarIter /\ UNCHANGED <<cacheVars, cl>>
  \/ UntarThrow /\ UNCHANGED <<cacheVars, cl>>
  \/ UntarExit /\ UNCHANGED <<cacheVars, cl>>

SpecBlocks == InitBlocks /\ [][NextBlocks]_vars

\* an iteration of one of the two loops
Iteration == tar.pc = tar'.pc /\ tar.pc \in {"scanTarGz", "untarToDir"}

\* C37: whatever the size fields hold, every iteration of the loops of
\* scanTarGz and untarToDir moves the header offset forward by at least 512
\* bytes.
C37_OffsetAdvances ==
  [][Iteration => tar'.offset >= tar.offset + BlockSize]_vars

\* the block of the buffer a header offset refers to
BlockIndex(offset) ==
  (subarray(Len(tar.buf) * BlockSize, offset, offset + BlockSize).from
     \div BlockSize) + 1

\* C39: an all-zero header block signals the end of the entries: the
\* extraction pass is handed no header located after an all-zero block.
C39_ZeroBlockEndsEntries ==
  \A offset \in tar.yielded :
    \A k \in 1..(BlockIndex(offset) - 1) : ~tar.buf[k].zero

====
